---- MODULE Spec2Model ----
(***************************************************************************)
(* A model of the Scallop core: the front-end analyses over the AST        *)
(* (constant declarations, boundness, aggregation well-formedness).        *)
(* Every definition is translated from the Rust source it is mapped to.    *)
(***************************************************************************)
EXTENDS Integers, Sequences, FiniteSets, TLC

(***************************************************************************)
(* Rust's Option<T> and Result<T, E>.                                      *)
(***************************************************************************)
None == <<>>
Some(x) == <<x>>
IsSome(o) == o # <<>>
Unwrap(o) == o[1]

Ok(v) == [ok |-> TRUE, val |-> v]
Err(e) == [ok |-> FALSE, err |-> e]

Range(s) == {s[i] : i \in DOMAIN s}

(***************************************************************************)
(* Bounds of the model.                                                    *)
(***************************************************************************)
\* AST nodes of one program walked by the constant declaration analysis
MaxItems == 2
\* members of one enum type declaration
MaxMembers == 3

(***************************************************************************)
(* ======================  CONSTANT DECLARATION ANALYSIS  ================ *)
(* core/src/compiler/front/analyzers/constant_decl.rs                      *)
(***************************************************************************)

VARIABLES
  variables,     \* ConstantDeclAnalysis.variables: name -> (Loc, Option<Type>, Constant)
  variable_use,  \* ConstantDeclAnalysis.variable_use: Loc -> name
  errors,        \* ConstantDeclAnalysis.errors
  visited        \* the AST nodes the visitor has been called on, in order

constVars == <<variables, variable_use, errors, visited>>

\* boundness analysis of one rule (boundness/context.rs)
VARIABLES
  rule,          \* the Rule handed to RuleContext::from_rule
  rule_ctx,      \* Option<RuleContext>, the value of from_rule
  body_boundness,\* Option of the value of self.body.compute_boundness (context.rs:40)
  rule_boundness \* Option of the value of RuleContext::compute_boundness

boundVars == <<rule, rule_ctx, body_boundness, rule_boundness>>

\* aggregation analysis (aggregation.rs)
VARIABLES
  agg_errors,    \* AggregationAnalysis.errors
  agg_visited    \* the Reduce nodes visit_reduce has been called on, in order

aggVars == <<agg_errors, agg_visited>>

\* source relations of a RAM dataflow (ram/ast.rs)
VARIABLES
  dataflow,      \* the Dataflow built so far with the constructors of impl Dataflow
  sources        \* Option of the value of dataflow.source_relations()

ramVars == <<dataflow, sources>>

\* CSV input and output of the dynamic runtime (runtime/dynamic/io.rs)
VARIABLES
  csv_file,      \* Option of the records of the file at file_path, as the csv reader yields them
  csv_stored,    \* Option of the arguments of the store_csv call that wrote the file
  csv_loaded     \* Option of the arguments and the value of the load_csv call

csvVars == <<csv_file, csv_stored, csv_loaded>>

\* aggregations of the top-bottom-k provenances (runtime/provenance)
VARIABLES
  provenance,    \* the provenance object: which of the two it is, and its k
  batch,         \* the elements handed to an aggregation, in tuple order
  aggregated     \* Option of the aggregation called and the elements it returned

provVars == <<provenance, batch, aggregated>>

\* the foreign function test (tests/integrate/ff.rs)
VARIABLES
  ff_facts,      \* the facts of R added to the extensional database
  ff_run         \* Option of the value of ctx.run() and the computed relation S

ffVars == <<ff_facts, ff_run>>

\* the hand-written fixpoint of tests/runtime/dataflow/dyn_aggregate.rs
VARIABLES
  dyn_pc,           \* where test_dynamic_aggregate_count_1 is
  source_1,         \* DynamicRelation: [stable, recent, to_add]
  source_2,
  target,
  completed_target, \* Option of target.complete(&ctx)
  first_time,
  agg_relation      \* the DynamicRelation agg, once created

dynVars == <<dyn_pc, source_1, source_2, target, completed_target, first_time, agg_relation>>

\* a DynamicRelation under a provenance with tags (runtime/dynamic/relation.rs)
VARIABLES
  relation,      \* Option of the DynamicRelation: [stable, recent, to_add]
  relation_op    \* the last call on it and its value

relVars == <<relation, relation_op>>

\* the fact table of a TopBottomKClausesProvenance (top_bottom_k_clauses.rs)
VARIABLES
  tbk_ctx,       \* Option of the provenance object: [k, probs, disjunctions]
  tagging_calls  \* the tagging_fn calls so far: input tag and returned tag, in order

taggingVars == <<tbk_ctx, tagging_calls>>

\* a RAM program and its output relations (ram/ast.rs)
VARIABLES
  program,       \* Option of the ram::Program
  program_op     \* the last call on it: [call, target]

programVars == <<program, program_op>>

\* a constant vector as dataflow (runtime/dynamic/dataflow/untagged_vec.rs)
VARIABLES
  untagged_vec,  \* Option of the DynamicUntaggedVec: [ctx, tuples]
  uv_iteration   \* Option of the last fixpoint iteration: its number, the runtime
                 \* environment, and the recent and stable batches the dataflow gave

uvecVars == <<untagged_vec, uv_iteration>>

vars == <<constVars, boundVars, aggVars, ramVars, csvVars, provVars, ffVars, dynVars, relVars, taggingVars, programVars, uvecVars>>

\* the analyses are separate objects: a run of one leaves the others as they are
IdleConst == variables = <<>> /\ variable_use = <<>> /\ errors = <<>> /\ visited = <<>>
IdleBoundness ==
  rule = <<>> /\ rule_ctx = <<>> /\ body_boundness = <<>> /\ rule_boundness = <<>>
IdleAggregation == agg_errors = <<>> /\ agg_visited = <<>>
IdleRam == dataflow = <<>> /\ sources = <<>>
IdleCsv == csv_file = <<>> /\ csv_stored = <<>> /\ csv_loaded = <<>>
IdleProv == provenance = <<>> /\ batch = <<>> /\ aggregated = <<>>
IdleFf == ff_facts = {} /\ ff_run = <<>>
IdleDyn ==
  /\ dyn_pc = "" /\ source_1 = <<>> /\ source_2 = <<>> /\ target = <<>>
  /\ completed_target = <<>> /\ first_time = FALSE /\ agg_relation = <<>>

IdleRel == relation = <<>> /\ relation_op = <<>>

IdleTagging == tbk_ctx = <<>> /\ tagging_calls = <<>>

IdleProgram == program = <<>> /\ program_op = <<>>

IdleUvec == untagged_vec = <<>> /\ uv_iteration = <<>>

\* every component but c is idle / is left as it is
IdleBut(c) ==
  /\ IF c = "const" THEN TRUE ELSE IdleConst
  /\ IF c = "boundness" THEN TRUE ELSE IdleBoundness
  /\ IF c = "aggregation" THEN TRUE ELSE IdleAggregation
  /\ IF c = "ram" THEN TRUE ELSE IdleRam
  /\ IF c = "csv" THEN TRUE ELSE IdleCsv
  /\ IF c = "provenance" THEN TRUE ELSE IdleProv
  /\ IF c = "ff" THEN TRUE ELSE IdleFf
  /\ IF c = "dyn" THEN TRUE ELSE IdleDyn
  /\ IF c = "rel" THEN TRUE ELSE IdleRel
  /\ IF c = "tagging" THEN TRUE ELSE IdleTagging
  /\ IF c = "program" THEN TRUE ELSE IdleProgram
  /\ IF c = "uvec" THEN TRUE ELSE IdleUvec
UnchangedBut(c) ==
  /\ IF c = "const" THEN TRUE ELSE UNCHANGED constVars
  /\ IF c = "boundness" THEN TRUE ELSE UNCHANGED boundVars
  /\ IF c = "aggregation" THEN TRUE ELSE UNCHANGED aggVars
  /\ IF c = "ram" THEN TRUE ELSE UNCHANGED ramVars
  /\ IF c = "csv" THEN TRUE ELSE UNCHANGED csvVars
  /\ IF c = "provenance" THEN TRUE ELSE UNCHANGED provVars
  /\ IF c = "ff" THEN TRUE ELSE UNCHANGED ffVars
  /\ IF c = "dyn" THEN TRUE ELSE UNCHANGED dynVars
  /\ IF c = "rel" THEN TRUE ELSE UNCHANGED relVars
  /\ IF c = "tagging" THEN TRUE ELSE UNCHANGED taggingVars
  /\ IF c = "program" THEN TRUE ELSE UNCHANGED programVars
  /\ IF c = "uvec" THEN TRUE ELSE UNCHANGED uvecVars

\* A location is the index of the visited node in the program and the index
\* of the sub-node (enum member, variable occurrence) inside it.
Loc(item, k) == <<item, k>>

\* Names of constants, of enum members, and the values a declaration carries.
ConstNames == {"A", "B"}
EnumNames == {"Red", "Green", "Blue"}
ConstValues == {10, 11}
TypeOpts == {None, Some("i32")}
UsizeType == "usize"

Integer(i) == [kind |-> "Integer", i |-> i]
StringConst == [kind |-> "String"]
\* the numbers an enum member may be assigned in the source text
AssignedNumbers == {None, Some(StringConst)} \cup {Some(Integer(i)) : i \in {-1, 0, 1, 5, 6}}

EnumTypeMembers(names, assigned) == [name : names, assigned_num : assigned]

SeqsUpTo(S, lo, hi) == UNION {[1..n -> S] : n \in lo..hi}

\* enum type declarations: the parser guarantees at least two members
EnumTypeDecls == [kind : {"EnumTypeDecl"},
                  members : SeqsUpTo(EnumTypeMembers(EnumNames, AssignedNumbers), 2, MaxMembers)]
SmallEnumTypeDecls == [kind : {"EnumTypeDecl"},
                       members : SeqsUpTo(EnumTypeMembers(ConstNames, {None, Some(Integer(0))}), 2, 2)]
ConstAssignments == [kind : {"ConstAssignment"}, name : ConstNames, ty : TypeOpts, value : ConstValues]

\* expressions (ast/expr.rs): variables, constants and binary expressions over them
VariableExpr(n) == [kind |-> "Variable", name |-> n]
ConstantExpr == [kind |-> "Constant"]
BinaryExpr(a, b) == [kind |-> "Binary", op1 |-> a, op2 |-> b]
ExprLeaves == {VariableExpr(n) : n \in ConstNames} \cup {ConstantExpr}
FactArgExprs == ExprLeaves \cup {BinaryExpr(VariableExpr("A"), VariableExpr("B")),
                                 BinaryExpr(VariableExpr("A"), VariableExpr("A"))}

ConstantSetTuples == [kind : {"ConstantSetTuple"}, constants : SeqsUpTo(ExprLeaves, 1, 2)]
FactDecls == [kind : {"FactDecl"}, args : SeqsUpTo(FactArgExprs, 1, 2)]
VariableNodes == [kind : {"Variable"}, name : ConstNames]
VariableBindings == [kind : {"VariableBinding"}, name : ConstNames]

\* ConstantDeclError
DuplicatedConstant(name, first_decl, second_decl) ==
  [kind |-> "DuplicatedConstant", name |-> name, first_decl |-> first_decl, second_decl |-> second_decl]
ConstantVarInBinding(name, const_var_decl, var_binding) ==
  [kind |-> "ConstantVarInBinding", name |-> name, const_var_decl |-> const_var_decl,
   var_binding |-> var_binding]
UnknownConstantVariable(name, loc) ==
  [kind |-> "UnknownConstantVariable", name |-> name, loc |-> loc]
EnumIDAlreadyAssigned(curr_name, id, loc) ==
  [kind |-> "EnumIDAlreadyAssigned", curr_name |-> curr_name, id |-> id, loc |-> loc]

\* Expr::collect_used_variables: the variable names of an expression, left to right
RECURSIVE collect_used_variables(_)
collect_used_variables(e) ==
  CASE e.kind = "Binary" -> collect_used_variables(e.op1) \o collect_used_variables(e.op2)
    [] e.kind = "Variable" -> <<e.name>>
    [] OTHER -> <<>>

RECURSIVE Flatten(_)
Flatten(ss) == IF ss = <<>> THEN <<>> ELSE Head(ss) \o Flatten(Tail(ss))

\* extract_value accepting an id equal to the previous one (>= for >)
extract_value_accepts_equal(member, loc, prev_max) ==
  LET c == member.assigned_num IN
  IF IsSome(c) /\ Unwrap(c).kind = "Integer" /\ Unwrap(c).i >= 0
  THEN LET i == Unwrap(c).i IN
       IF IsSome(prev_max)
       THEN IF i >= Unwrap(prev_max)
            THEN Ok(i)
            ELSE Err(EnumIDAlreadyAssigned(member.name, i, loc))
       ELSE Ok(i)
  ELSE IF IsSome(prev_max) THEN Ok(Unwrap(prev_max) + 1) ELSE Ok(0)

\* the closure extract_value of process_enum_type_decl
extract_value(member, loc, prev_max) ==
  LET c == member.assigned_num IN
  IF IsSome(c) /\ Unwrap(c).kind = "Integer" /\ Unwrap(c).i >= 0
  THEN LET i == Unwrap(c).i IN
       IF IsSome(prev_max)
       THEN IF i > Unwrap(prev_max)
            THEN Ok(i)
            ELSE Err(EnumIDAlreadyAssigned(member.name, i, loc))
       ELSE Ok(i)
  ELSE IF IsSome(prev_max) THEN Ok(Unwrap(prev_max) + 1) ELSE Ok(0)

\* the closure process_member of process_enum_type_decl; val is the new table
process_member(tbl, member, loc, id) ==
  IF member.name \in DOMAIN tbl
  THEN Err(DuplicatedConstant(member.name, tbl[member.name].loc, loc))
  ELSE Ok(tbl @@ (member.name :> [loc |-> loc, ty |-> Some(UsizeType), value |-> id]))

\* the member loop of process_enum_type_decl; `?` returns the first error
RECURSIVE process_members(_, _, _, _, _)
process_members(tbl, members, item, k, prev_max) ==
  IF k > Len(members)
  THEN [variables |-> tbl, result |-> Ok(<<>>)]
  ELSE LET ev == extract_value(members[k], Loc(item, k), prev_max) IN
       IF ~ev.ok
       THEN [variables |-> tbl, result |-> ev]
       ELSE LET pm == process_member(tbl, members[k], Loc(item, k), ev.val) IN
            IF ~pm.ok
            THEN [variables |-> tbl, result |-> pm]
            ELSE process_members(pm.val, members, item, k + 1, Some(ev.val))

process_enum_type_decl(tbl, etd, item) == process_members(tbl, etd.members, item, 1, None)

\* the visitor methods, as functions from the analysis to the analysis
Analysis == [variables |-> variables, variable_use |-> variable_use, errors |-> errors]

\* visit_const_assignment letting the second declaration replace the first
visit_const_assignment_overwrites(self, ca, item) ==
  LET entry == (ca.name :> [loc |-> Loc(item, 0), ty |-> ca.ty, value |-> ca.value]) IN
  IF ca.name \in DOMAIN self.variables
  THEN [self EXCEPT !.errors = Append(@, DuplicatedConstant(ca.name, self.variables[ca.name].loc,
                                                             Loc(item, 0))),
                    !.variables = entry @@ @]
  ELSE [self EXCEPT !.variables = @ @@ entry]

visit_const_assignment(self, ca, item) ==
  IF ca.name \in DOMAIN self.variables
  THEN [self EXCEPT !.errors = Append(@, DuplicatedConstant(ca.name, self.variables[ca.name].loc,
                                                             Loc(item, 0)))]
  ELSE [self EXCEPT !.variables = @ @@ (ca.name :> [loc |-> Loc(item, 0), ty |-> ca.ty,
                                                    value |-> ca.value])]

\* visit_enum_type_decl undoing the members of a declaration that fails
visit_enum_type_decl_rolls_back(self, etd, item) ==
  LET r == process_enum_type_decl(self.variables, etd, item) IN
  IF r.result.ok THEN [self EXCEPT !.variables = r.variables]
  ELSE [self EXCEPT !.errors = Append(@, r.result.err)]

visit_enum_type_decl(self, etd, item) ==
  LET r == process_enum_type_decl(self.variables, etd, item) IN
  [self EXCEPT !.variables = r.variables,
               !.errors = IF r.result.ok THEN @ ELSE Append(@, r.result.err)]

\* one step of the loops of visit_constant_set_tuple and visit_fact_decl
use_or_unknown(self, name, loc) ==
  IF name \in DOMAIN self.variables
  THEN [self EXCEPT !.variable_use = (loc :> name) @@ @]
  ELSE [self EXCEPT !.errors = Append(@, UnknownConstantVariable(name, loc))]

RECURSIVE use_all(_, _, _, _)
use_all(self, names, item, k) ==
  IF k > Len(names) THEN self
  ELSE use_all(use_or_unknown(self, names[k], Loc(item, k)), names, item, k + 1)

visit_constant_set_tuple(self, cst, item) ==
  use_all(self, Flatten([i \in DOMAIN cst.constants |->
                           IF cst.constants[i].kind = "Variable"
                           THEN <<cst.constants[i].name>> ELSE <<>>]), item, 1)

visit_fact_decl(self, fact_decl, item) ==
  use_all(self, Flatten([i \in DOMAIN fact_decl.args |-> collect_used_variables(fact_decl.args[i])]),
          item, 1)

\* visit_variable recording every variable, constant or not
visit_variable_unchecked(self, v, item) ==
  [self EXCEPT !.variable_use = (Loc(item, 0) :> v.name) @@ @]

visit_variable(self, v, item) ==
  IF v.name \in DOMAIN self.variables
  THEN [self EXCEPT !.variable_use = (Loc(item, 0) :> v.name) @@ @]
  ELSE self

visit_variable_binding(self, b, item) ==
  IF b.name \in DOMAIN self.variables
  THEN [self EXCEPT !.errors = Append(@, ConstantVarInBinding(b.name, self.variables[b.name].loc,
                                                               Loc(item, 0)))]
  ELSE self

\* ConstantDeclAnalysis::new
InitConst ==
  /\ variables = <<>>
  /\ variable_use = <<>>
  /\ errors = <<>>
  /\ visited = <<>>
  /\ IdleBut("const")

\* the walker calls a visitor method on the next node of the program
Visit(node, after) ==
  /\ variables' = after.variables
  /\ variable_use' = after.variable_use
  /\ errors' = after.errors
  /\ visited' = Append(visited, node)
  /\ UnchangedBut("const")

NextItem == Len(visited) + 1

VisitConstAssignment ==
  /\ Len(visited) < MaxItems
  /\ \E ca \in ConstAssignments : Visit(ca, visit_const_assignment(Analysis, ca, NextItem))

VisitEnumTypeDecl ==
  /\ Len(visited) < MaxItems
  /\ \E etd \in SmallEnumTypeDecls : Visit(etd, visit_enum_type_decl(Analysis, etd, NextItem))

VisitConstantSetTuple ==
  /\ Len(visited) < MaxItems
  /\ \E cst \in ConstantSetTuples : Visit(cst, visit_constant_set_tuple(Analysis, cst, NextItem))

VisitFactDecl ==
  /\ Len(visited) < MaxItems
  /\ \E fd \in FactDecls : Visit(fd, visit_fact_decl(Analysis, fd, NextItem))

VisitVariable ==
  /\ Len(visited) < MaxItems
  /\ \E v \in VariableNodes : Visit(v, visit_variable(Analysis, v, NextItem))

VisitVariableBinding ==
  /\ Len(visited) < MaxItems
  /\ \E b \in VariableBindings : Visit(b, visit_variable_binding(Analysis, b, NextItem))

\* a program that is one enum type declaration, over the full member alphabet
ProcessEnumTypeDecl ==
  /\ visited = <<>>
  /\ \E etd \in EnumTypeDecls : Visit(etd, visit_enum_type_decl(Analysis, etd, NextItem))

NextConstDecl ==
  \/ VisitConstAssignment
  \/ VisitEnumTypeDecl
  \/ VisitConstantSetTuple
  \/ VisitFactDecl
  \/ VisitVariable
  \/ VisitVariableBinding

SpecConstDecl == InitConst /\ [][NextConstDecl]_vars

NextEnum == ProcessEnumTypeDecl

SpecEnum == InitConst /\ [][NextEnum]_vars

(***************************************************************************)
(* Properties of the constant declaration analysis.                        *)
(***************************************************************************)
HasInteger(m) == IsSome(m.assigned_num) /\ Unwrap(m.assigned_num).kind = "Integer"
AssignedInt(m) == Unwrap(m.assigned_num).i
DistinctNames(ms) == \A i, j \in DOMAIN ms : i # j => ms[i].name # ms[j].name
Declared(m, id, loc) ==
  /\ m.name \in DOMAIN variables
  /\ variables[m.name] = [loc |-> loc, ty |-> Some(UsizeType), value |-> id]
RejectedId(m, loc) ==
  /\ m.name \notin DOMAIN variables
  /\ errors = <<EnumIDAlreadyAssigned(m.name, AssignedInt(m), loc)>>

ColorDecl == [kind |-> "EnumTypeDecl",
              members |-> << [name |-> "Red", assigned_num |-> None],
                             [name |-> "Green", assigned_num |-> Some(Integer(5))],
                             [name |-> "Blue", assigned_num |-> None] >>]

\* the first member of the one enum declaration processed, and the example
EnumFirstAndExample ==
  /\ \A etd \in Range(visited) : DistinctNames(etd.members) =>
       LET m == etd.members[1] IN
       Declared(m, IF HasInteger(m) /\ AssignedInt(m) >= 0 THEN AssignedInt(m) ELSE 0, Loc(1, 1))
  /\ visited = <<ColorDecl>> =>
       /\ errors = <<>>
       /\ DOMAIN variables = {"Red", "Green", "Blue"}
       /\ variables["Red"].value = 0
       /\ variables["Green"].value = 5
       /\ variables["Blue"].value = 6

\* what the claim says of the later members; strict is the claim's wording of
\* the failure case (any explicit integer not above the previous id)
EnumLaterMembers(strict) ==
  \A etd \in Range(visited) : DistinctNames(etd.members) =>
    \A k \in 2..Len(etd.members) :
      LET m == etd.members[k]
          p == etd.members[k - 1]
      IN  p.name \in DOMAIN variables =>
            LET prev == variables[p.name].value IN
            /\ (HasInteger(m) /\ AssignedInt(m) >= 0 /\ AssignedInt(m) > prev)
                 => Declared(m, AssignedInt(m), Loc(1, k))
            /\ m.assigned_num = None => Declared(m, prev + 1, Loc(1, k))
            /\ IF strict
               THEN (HasInteger(m) /\ ~(AssignedInt(m) > prev)) => RejectedId(m, Loc(1, k))
               ELSE /\ (HasInteger(m) /\ AssignedInt(m) >= 0 /\ ~(AssignedInt(m) > prev))
                         => RejectedId(m, Loc(1, k))
                    /\ (IsSome(m.assigned_num) /\ ~(HasInteger(m) /\ AssignedInt(m) >= 0))
                         => Declared(m, prev + 1, Loc(1, k))

\* C1 as stated: ids in declaration order; every explicit assignment of a later
\* member that is not strictly greater than the previous id fails with
\* EnumIDAlreadyAssigned; Red | Green = 5 | Blue gives 0, 5, 6.
C1_EnumIdsAsClaimed == EnumFirstAndExample /\ EnumLaterMembers(TRUE)

\* C1 amended: only a non-negative explicit integer that is not strictly greater
\* than the previous id fails; a negative or non-integer assignment is ignored
\* and the member gets the previous id plus one.
C1_EnumIds == EnumFirstAndExample /\ EnumLaterMembers(FALSE)

\* C1 witness: Red | Green = 5 | Blue was processed and Blue got 6
C1_Witness == visited = <<ColorDecl>> /\ "Blue" \in DOMAIN variables /\ variables["Blue"].value = 6

\* is member k of the declaration the first one whose name is taken, either by
\* the table before the declaration or by an earlier member
NameFree(tbl, ms, k) ==
  /\ ms[k].name \notin DOMAIN tbl
  /\ \A h \in 1..(k - 1) : ms[h].name # ms[k].name
FirstDeclOf(tbl, ms, k, item) ==
  IF ms[k].name \in DOMAIN tbl THEN tbl[ms[k].name].loc
  ELSE Loc(item, CHOOSE h \in 1..(k - 1) :
                    ms[h].name = ms[k].name /\ \A g \in 1..(h - 1) : ms[g].name # ms[k].name)

C3_ConstantBindingsReported ==
  \A i \in DOMAIN visited :
    (visited[i].kind = "VariableBinding" /\ visited[i].name \in DOMAIN variables) =>
      \E j \in DOMAIN errors :
        /\ errors[j].kind = "ConstantVarInBinding"
        /\ errors[j].name = visited[i].name
        /\ errors[j].var_binding = Loc(i, 0)

\* the variable occurrences of a visited node: <<name, location, literal context>>
OccurrencesOf(node, item) ==
  CASE node.kind = "Variable" -> {<<node.name, Loc(item, 0), FALSE>>}
    [] node.kind = "FactDecl" ->
         LET ns == Flatten([i \in DOMAIN node.args |-> collect_used_variables(node.args[i])])
         IN  {<<ns[k], Loc(item, k), TRUE>> : k \in DOMAIN ns}
    [] node.kind = "ConstantSetTuple" ->
         LET ns == Flatten([i \in DOMAIN node.constants |->
                              IF node.constants[i].kind = "Variable"
                              THEN <<node.constants[i].name>> ELSE <<>>])
         IN  {<<ns[k], Loc(item, k), TRUE>> : k \in DOMAIN ns}
    [] OTHER -> {}

\* C4: after the walk, every occurrence of a declared constant is in
\* variable_use, and every fact or constant-set variable naming no declared
\* constant has an UnknownConstantVariable error and no variable_use entry.
C4_UsesRecorded ==
  \A i \in DOMAIN visited : \A occ \in OccurrencesOf(visited[i], i) :
    /\ occ[1] \in DOMAIN variables =>
         occ[2] \in DOMAIN variable_use /\ variable_use[occ[2]] = occ[1]
    /\ (occ[3] /\ occ[1] \notin DOMAIN variables) =>
         /\ occ[2] \notin DOMAIN variable_use
         /\ \E j \in DOMAIN errors : errors[j] = UnknownConstantVariable(occ[1], occ[2])

\* C25: every name stored in variable_use is a key of variables; variables only
\* grows, and the entry of a name is never modified after its insertion.
C25_UsesAreDeclared ==
  /\ [](\A loc \in DOMAIN variable_use : variable_use[loc] \in DOMAIN variables)
  /\ [][/\ DOMAIN variables \subseteq DOMAIN variables'
        /\ \A name \in DOMAIN variables : variables'[name] = variables[name]]_vars

\* const A = 10 was declared and then used as a variable: the use is recorded
\* under the declared name
C25_Witness ==
  /\ Len(visited) = 2
  /\ visited[1].kind = "ConstAssignment" /\ visited[1].name = "A" /\ visited[1].value = 10
  /\ visited[2].kind = "Variable" /\ visited[2].name = "A"
  /\ variable_use = (Loc(2, 0) :> "A")
  /\ variables["A"].value = 10

\* the id the members loop gives member k of a declaration none of whose first k
\* members is rejected
RECURSIVE ExpectedId(_, _)
ExpectedId(members, k) ==
  LET m == members[k] IN
  IF HasInteger(m) /\ AssignedInt(m) >= 0 THEN AssignedInt(m)
  ELSE IF k = 1 THEN 0 ELSE ExpectedId(members, k - 1) + 1

\* the location an enum error points at
ErrorLoc(e) == IF e.kind = "DuplicatedConstant" THEN e.second_decl ELSE e.loc

\* C26: when the visit of an enum declaration fails at member k, exactly one
\* error (EnumIDAlreadyAssigned or DuplicatedConstant, located at member k) is
\* added for the declaration, the members before k are declared at their
\* locations with their ids, no entry is made for member k or for a member after
\* it, and no other entry of the table is added or changed.
C26_EnumFailsAtMember ==
  [][(/\ Len(visited') = Len(visited) + 1
      /\ visited'[Len(visited')].kind = "EnumTypeDecl"
      /\ errors' # errors) =>
       LET item == Len(visited')
           members == visited'[item].members
           e == errors'[Len(errors')]
       IN  /\ errors' = Append(errors, e)
           /\ e.kind \in {"EnumIDAlreadyAssigned", "DuplicatedConstant"}
           /\ \E k \in DOMAIN members :
                /\ ErrorLoc(e) = Loc(item, k)
                /\ \A j \in 1 .. k - 1 :
                     /\ members[j].name \in DOMAIN variables'
                     /\ variables'[members[j].name]
                          = [loc |-> Loc(item, j), ty |-> Some(UsizeType),
                             value |-> ExpectedId(members, j)]
                /\ \A j \in k .. Len(members) :
                     \A name \in DOMAIN variables' : variables'[name].loc # Loc(item, j)
                /\ DOMAIN variables' = DOMAIN variables \cup {members[j].name : j \in 1 .. k - 1}
                /\ \A name \in DOMAIN variables : variables'[name] = variables[name]]_vars

\* const B, then the enum A | B: the declaration fails at its second member with
\* DuplicatedConstant and A stays declared with id 0
C26_Witness ==
  /\ Len(visited) = 2
  /\ visited[1].kind = "ConstAssignment" /\ visited[1].name = "B"
  /\ visited[2].kind = "EnumTypeDecl"
  /\ errors = <<DuplicatedConstant("B", Loc(1, 0), Loc(2, 2))>>
  /\ "A" \in DOMAIN variables
  /\ variables["A"] = [loc |-> Loc(2, 1), ty |-> Some(UsizeType), value |-> 0]

(***************************************************************************)
(* ==========================  BOUNDNESS ANALYSIS  ======================= *)
(* core/src/compiler/front/analyzers/boundness/context.rs                  *)
(***************************************************************************)

\* A variable or variable binding of the AST: a name and a source location.
\* A location is <<id of the enclosing node, role, index>>.
Var(name, id, role, k) == [kind |-> "Variable", name |-> name, loc |-> <<id, role, k>>]
VarsAt(names, id, role) == [k \in DOMAIN names |-> Var(names[k], id, role, k)]
Names(vs) == {vs[k].name : k \in DOMAIN vs}

\* Formula (the arms from_formula accepts); a body atom lists its variables
Atom(args) == [kind |-> "Atom", args |-> args]
NegAtom(args) == [kind |-> "NegAtom", args |-> args]
Constraint(op, lhs, rhs) == [kind |-> "Constraint", op |-> op, lhs |-> lhs, rhs |-> rhs]
Conjunction(args) == [kind |-> "Conjunction", args |-> args]
Disjunction(args) == [kind |-> "Disjunction", args |-> args]
Reduce(id, left, operator, bindings, args, body, group_by) ==
  [kind |-> "Reduce", left |-> VarsAt(left, id, "left"), operator |-> operator,
   bindings |-> VarsAt(bindings, id, "binding"), args |-> VarsAt(args, id, "arg"),
   body |-> body,
   group_by |-> IF IsSome(group_by)
                THEN Some([bindings |-> VarsAt(Unwrap(group_by)[1], id, "group_by"),
                           formula |-> Unwrap(group_by)[2]])
                ELSE None]

\* ReduceOperatorNode; Unknown carries the name written in the source
ReduceOperator(node) == [node |-> node]
UnknownOperator(name) == [node |-> "Unknown", name |-> name]

\* BoundnessAnalysisError
HeadExprUnbound(loc) == [kind |-> "HeadExprUnbound", loc |-> loc]
ReduceArgUnbound(loc) == [kind |-> "ReduceArgUnbound", loc |-> loc]

\* collect_vars_in_expr: the (name, location) of the variables, left to right
RECURSIVE collect_vars_in_expr(_)
collect_vars_in_expr(expr) ==
  CASE expr.kind = "Binary" -> collect_vars_in_expr(expr.op1) \o collect_vars_in_expr(expr.op2)
    [] expr.kind = "Unary" -> collect_vars_in_expr(expr.op1)
    [] expr.kind = "Variable" -> << <<expr.name, expr.loc>> >>
    [] expr.kind = "Constant" -> <<>>
    [] expr.kind = "Wildcard" -> <<>>
    [] expr.kind = "IfThenElse" ->
         collect_vars_in_expr(expr.cond) \o collect_vars_in_expr(expr.then_br)
           \o collect_vars_in_expr(expr.else_br)
    [] expr.kind = "Call" ->
         Flatten([i \in DOMAIN expr.args |-> collect_vars_in_expr(expr.args[i])])

collect_vars_in_atom(atom) ==
  Flatten([i \in DOMAIN atom.args |-> collect_vars_in_expr(atom.args[i])])

collect_vars_in_head(head) ==
  IF head.kind = "Atom"
  THEN collect_vars_in_atom(head.atom)
  ELSE Flatten([i \in DOMAIN head.atoms |-> collect_vars_in_atom(head.atoms[i])])

\* itertools' multi_cartesian_product: the last iterator cycles fastest
RECURSIVE multi_cartesian_product(_)
multi_cartesian_product(lists) ==
  IF lists = <<>> THEN << <<>> >>
  ELSE LET rest == multi_cartesian_product(Tail(lists)) IN
       Flatten([i \in DOMAIN Head(lists) |->
                  [j \in DOMAIN rest |-> <<Head(lists)[i]>> \o rest[j]]])

\* ConjunctionContext::join
RECURSIVE ConjunctionContext_join(_)
\* join keeping only the last context of the fold
ConjunctionContext_join_keeps_last(conjs) ==
  IF conjs = <<>>
  THEN [pos_atoms |-> <<>>, neg_atoms |-> <<>>, agg_contexts |-> <<>>]
  ELSE conjs[Len(conjs)]
ConjunctionContext_join(conjs) ==
  IF conjs = <<>>
  THEN [pos_atoms |-> <<>>, neg_atoms |-> <<>>, agg_contexts |-> <<>>]
  ELSE LET acc == ConjunctionContext_join(SubSeq(conjs, 1, Len(conjs) - 1))
           new == conjs[Len(conjs)]
       IN  [pos_atoms |-> acc.pos_atoms \o new.pos_atoms,
            neg_atoms |-> acc.neg_atoms \o new.neg_atoms,
            agg_contexts |-> acc.agg_contexts \o new.agg_contexts]

RECURSIVE from_formula(_)
RECURSIVE from_qualified(_, _, _)
RECURSIVE AggregationContext_from_reduce(_)

\* DisjunctionContext::from_formula: the list of conjuncts
from_formula(formula) ==
  CASE formula.kind = "Disjunction" ->
         Flatten([i \in DOMAIN formula.args |-> from_formula(formula.args[i])])
    [] formula.kind = "Conjunction" ->
         LET cp == multi_cartesian_product([i \in DOMAIN formula.args |->
                                              from_formula(formula.args[i])])
         IN  [i \in DOMAIN cp |-> ConjunctionContext_join(cp[i])]
    [] formula.kind = "Atom" ->
         << [pos_atoms |-> <<formula>>, neg_atoms |-> <<>>, agg_contexts |-> <<>>] >>
    [] formula.kind = "NegAtom" ->
         << [pos_atoms |-> <<>>, neg_atoms |-> <<formula>>, agg_contexts |-> <<>>] >>
    [] formula.kind = "Constraint" ->
         << [pos_atoms |-> <<formula>>, neg_atoms |-> <<>>, agg_contexts |-> <<>>] >>
    [] formula.kind = "Reduce" ->
         << [pos_atoms |-> <<>>, neg_atoms |-> <<>>,
             agg_contexts |-> <<AggregationContext_from_reduce(formula)>>] >>

\* RuleContext::from_qualified
from_qualified(bindings, args, body) ==
  [head_vars |-> [k \in DOMAIN bindings |-> <<bindings[k].name, bindings[k].loc>>]
                   \o [k \in DOMAIN args |-> <<args[k].name, args[k].loc>>],
   body |-> from_formula(body)]

\* AggregationContext::from_reduce
AggregationContext_from_reduce(reduce) ==
  LET joined_body_formula ==
        IF IsSome(reduce.group_by)
        THEN Conjunction(<<reduce.body, Unwrap(reduce.group_by).formula>>)
        ELSE reduce.body
  IN  [result_vars |-> reduce.left,
       binding_vars |-> [k \in DOMAIN reduce.bindings |-> reduce.bindings[k].name],
       arg_vars |-> reduce.args,
       body |-> from_qualified(reduce.bindings, reduce.args, reduce.body),
       joined_body |-> from_qualified(reduce.bindings, reduce.args, joined_body_formula),
       group_by |-> IF IsSome(reduce.group_by)
                    THEN Some(from_qualified(Unwrap(reduce.group_by).bindings, <<>>,
                                             Unwrap(reduce.group_by).formula))
                    ELSE None,
       aggregate_op |-> reduce.operator]

\* RuleContext::from_rule
from_rule(r) == [head_vars |-> collect_vars_in_head(r.head), body |-> from_formula(r.body)]

\* LocalBoundnessAnalysisContext (its source is not part of the source tree):
\* the variables of positive atoms are bounded, and `v == expr` bounds v once
\* every variable of expr is bounded, iterated to the fixpoint
RECURSIVE PropagateAssignments(_, _)
PropagateAssignments(bounded, formulas) ==
  LET more == {formulas[i].lhs : i \in {j \in DOMAIN formulas :
                  /\ formulas[j].kind = "Constraint"
                  /\ formulas[j].op = "=="
                  /\ Range(formulas[j].rhs) \subseteq bounded}}
  IN  IF more \subseteq bounded THEN bounded ELSE PropagateAssignments(bounded \cup more, formulas)

LocalBoundness(bounded_variables, pos_atoms) ==
  LET walked == bounded_variables \cup
                UNION {Range(pos_atoms[i].args) : i \in {j \in DOMAIN pos_atoms :
                                                           pos_atoms[j].kind = "Atom"}}
  IN  [bounded_variables |-> PropagateAssignments(walked, pos_atoms), errors |-> <<>>]

Min(S) == CHOOSE m \in S : \A n \in S : m <= n

RECURSIVE RuleContext_compute_boundness(_)
RECURSIVE DisjunctionContext_compute_boundness(_)
RECURSIVE ConjunctionContext_compute_boundness(_)
RECURSIVE AggregationContext_compute_boundness(_)

Max(S) == CHOOSE m \in S : \A n \in S : m >= n

\* RuleContext::compute_boundness reporting the last unbounded head variable
RuleContext_reports_last(self) ==
  LET bounded_vars == DisjunctionContext_compute_boundness(self.body) IN
  IF ~bounded_vars.ok THEN bounded_vars
  ELSE LET unbound == {k \in DOMAIN self.head_vars : self.head_vars[k][1] \notin bounded_vars.val}
       IN  IF unbound # {}
           THEN Err(<<HeadExprUnbound(self.head_vars[Max(unbound)][2])>>)
           ELSE Ok(bounded_vars.val)

\* RuleContext::compute_boundness
RuleContext_compute_boundness(self) ==
  LET bounded_vars == DisjunctionContext_compute_boundness(self.body) IN
  IF ~bounded_vars.ok THEN bounded_vars
  ELSE LET unbound == {k \in DOMAIN self.head_vars : self.head_vars[k][1] \notin bounded_vars.val}
       IN  IF unbound # {}
           THEN Err(<<HeadExprUnbound(self.head_vars[Min(unbound)][2])>>)
           ELSE Ok(bounded_vars.val)

\* DisjunctionContext::compute_boundness keeping what any other conjunct bounds
DisjunctionContext_filters_any(self) ==
  IF Len(self) = 0 THEN Ok({})
  ELSE IF Len(self) = 1 THEN ConjunctionContext_compute_boundness(self[1])
  ELSE LET set1 == ConjunctionContext_compute_boundness(self[1]) IN
       IF ~set1.ok THEN set1
       ELSE LET other_sets == [i \in 2..Len(self) |-> ConjunctionContext_compute_boundness(self[i])]
                failed == {i \in 2..Len(self) : ~other_sets[i].ok}
            IN  IF failed # {}
                THEN other_sets[Min(failed)]
                ELSE Ok({v \in set1.val : \E i \in 2..Len(self) : v \in other_sets[i].val})

\* DisjunctionContext::compute_boundness; self is the list of conjuncts
DisjunctionContext_compute_boundness(self) ==
  IF Len(self) = 0 THEN Ok({})
  ELSE IF Len(self) = 1 THEN ConjunctionContext_compute_boundness(self[1])
  ELSE LET set1 == ConjunctionContext_compute_boundness(self[1]) IN
       IF ~set1.ok THEN set1
       ELSE LET other_sets == [i \in 2..Len(self) |-> ConjunctionContext_compute_boundness(self[i])]
                failed == {i \in 2..Len(self) : ~other_sets[i].ok}
            IN  IF failed # {}
                THEN other_sets[Min(failed)]
                ELSE Ok({v \in set1.val : \A i \in 2..Len(self) : v \in other_sets[i].val})

\* ConjunctionContext::compute_boundness walking the negated atoms as well
ConjunctionContext_walks_neg_atoms(self) ==
  LET bounded_args == [i \in DOMAIN self.agg_contexts |->
                         AggregationContext_compute_boundness(self.agg_contexts[i])]
      failed == {i \in DOMAIN bounded_args : ~bounded_args[i].ok}
  IN  IF failed # {}
      THEN bounded_args[Min(failed)]
      ELSE LET local_ctx == LocalBoundness(
                              UNION {bounded_args[i].val : i \in DOMAIN bounded_args}
                                \cup UNION {Range(self.neg_atoms[i].args) : i \in DOMAIN self.neg_atoms},
                              self.pos_atoms)
           IN  IF local_ctx.errors = <<>>
               THEN Ok(local_ctx.bounded_variables)
               ELSE Err(local_ctx.errors)

\* ConjunctionContext::compute_boundness
ConjunctionContext_compute_boundness(self) ==
  LET bounded_args == [i \in DOMAIN self.agg_contexts |->
                         AggregationContext_compute_boundness(self.agg_contexts[i])]
      failed == {i \in DOMAIN bounded_args : ~bounded_args[i].ok}
  IN  IF failed # {}
      THEN bounded_args[Min(failed)]
      ELSE LET local_ctx == LocalBoundness(UNION {bounded_args[i].val : i \in DOMAIN bounded_args},
                                           self.pos_atoms)
           IN  IF local_ctx.errors = <<>>
               THEN Ok(local_ctx.bounded_variables)
               ELSE Err(local_ctx.errors)

\* AggregationContext::compute_boundness leaving the binding variables in
AggregationContext_keeps_bindings(self) ==
  LET group_by == IF IsSome(self.group_by)
                  THEN RuleContext_compute_boundness(Unwrap(self.group_by))
                  ELSE Ok({})
  IN  IF ~group_by.ok THEN group_by
      ELSE LET joined == RuleContext_compute_boundness(self.joined_body) IN
           IF ~joined.ok THEN joined
           ELSE LET bounded == joined.val
                    unbound == {k \in DOMAIN self.arg_vars : self.arg_vars[k].name \notin bounded}
                IN  IF unbound # {}
                    THEN Err(<<ReduceArgUnbound(self.arg_vars[Min(unbound)].loc)>>)
                    ELSE Ok(bounded \cup Names(self.result_vars) \cup Names(self.arg_vars))

\* AggregationContext::compute_boundness
AggregationContext_compute_boundness(self) ==
  LET group_by == IF IsSome(self.group_by)
                  THEN RuleContext_compute_boundness(Unwrap(self.group_by))
                  ELSE Ok({})
  IN  IF ~group_by.ok THEN group_by
      ELSE LET joined == RuleContext_compute_boundness(self.joined_body) IN
           IF ~joined.ok THEN joined
           ELSE LET bounded == joined.val \ Range(self.binding_vars)
                    unbound == {k \in DOMAIN self.arg_vars : self.arg_vars[k].name \notin bounded}
                IN  IF unbound # {}
                    THEN Err(<<ReduceArgUnbound(self.arg_vars[Min(unbound)].loc)>>)
                    ELSE Ok(bounded \cup Names(self.result_vars) \cup Names(self.arg_vars))

\* ---- the rules the analysis is run on ----
\* body leaves; id is the place of the leaf in the rule body
BodyAtoms == {Atom(a) : a \in {<<"x">>, <<"y">>, <<"x", "y">>}}
BodyNegAtoms == {NegAtom(a) : a \in {<<"x">>, <<"z">>}}
BodyConstraints == {Constraint("==", "z", <<"x">>), Constraint("<", "z", <<"x">>)}
GroupBys == {None, Some(<< <<"x">>, Atom(<<"x">>) >>), Some(<< <<"z">>, Atom(<<"x">>) >>)}
BodyReduces(id) ==
  {Reduce(id, left, ReduceOperator("Max"), bindings, args, body, group_by) :
     left \in {<<"z">>, <<"y">>}, bindings \in {<<"y">>, <<"x">>},
     args \in {<<>>, <<"x">>, <<"y">>}, body \in {Atom(<<"y">>), Atom(<<"x", "y">>)},
     group_by \in GroupBys}
BodyLeaves(id) == BodyAtoms \cup BodyNegAtoms \cup BodyConstraints \cup BodyReduces(id)
\* the second and third operand of a body come from a shorter list
SmallLeaves(id) ==
  {Atom(<<"x">>), Atom(<<"x", "y">>), NegAtom(<<"z">>), Constraint("==", "z", <<"x">>),
   Reduce(id, <<"z">>, ReduceOperator("Max"), <<"y">>, <<"x">>, Atom(<<"x", "y">>), None),
   Reduce(id, <<"z">>, ReduceOperator("Max"), <<"y">>, <<"x">>, Atom(<<"y">>), None),
   Reduce(id, <<"z">>, ReduceOperator("Max"), <<"y">>, <<"y">>, Atom(<<"y">>), None)}
TinyLeaves == {Atom(<<"x">>), Atom(<<"y">>), NegAtom(<<"z">>)}
Bodies ==
  BodyLeaves(1) \cup {Disjunction(<<>>)}
    \cup {Conjunction(<<a, b>>) : a \in BodyLeaves(1), b \in SmallLeaves(2)}
    \cup {Disjunction(<<a, b>>) : a \in BodyLeaves(1), b \in SmallLeaves(2)}
    \cup {Disjunction(<<a, b, c>>) : a \in SmallLeaves(1), b \in SmallLeaves(2), c \in SmallLeaves(3)}
    \cup {Conjunction(<<Disjunction(<<a, b>>), Disjunction(<<c, d>>)>>) :
            a \in TinyLeaves, b \in TinyLeaves, c \in TinyLeaves, d \in TinyLeaves}

\* rule heads: an atom over expressions, or a disjunction of atoms
HeadVar(name, k) == Var(name, 0, "head", k)
HeadAtom(args) == [kind |-> "Atom", atom |-> [args |-> args]]
Heads ==
  {HeadAtom(<<HeadVar("x", 1)>>),
   HeadAtom(<<HeadVar("z", 1)>>),
   HeadAtom(<<HeadVar("x", 1), HeadVar("y", 2)>>),
   HeadAtom(<<HeadVar("y", 1), HeadVar("z", 2)>>),
   HeadAtom(<<[kind |-> "Binary", op1 |-> HeadVar("z", 1), op2 |-> HeadVar("x", 2)],
              [kind |-> "Constant"]>>),
   [kind |-> "Disjunction", atoms |-> << [args |-> <<HeadVar("x", 1)>>],
                                         [args |-> <<HeadVar("y", 2), HeadVar("z", 3)>>] >>]}
Rules == [head : Heads, body : Bodies]

InitBoundness ==
  /\ rule \in Rules
  /\ rule_ctx = None
  /\ body_boundness = None
  /\ rule_boundness = None
  /\ IdleBut("boundness")

\* RuleContext::from_rule(rule)
FromRule ==
  /\ rule_ctx = None
  /\ rule_ctx' = Some(from_rule(rule))
  /\ UNCHANGED <<rule, body_boundness, rule_boundness>>
  /\ UnchangedBut("boundness")

\* rule_ctx.compute_boundness(predicate_bindings, &vec![])
ComputeBoundness ==
  /\ IsSome(rule_ctx)
  /\ rule_boundness = None
  /\ body_boundness' = Some(DisjunctionContext_compute_boundness(Unwrap(rule_ctx).body))
  /\ rule_boundness' = Some(RuleContext_compute_boundness(Unwrap(rule_ctx)))
  /\ UNCHANGED <<rule, rule_ctx>>
  /\ UnchangedBut("boundness")

NextBoundness == FromRule \/ ComputeBoundness

SpecBoundness == InitBoundness /\ [][NextBoundness]_vars

(***************************************************************************)
(* =========================  AGGREGATION ANALYSIS  ====================== *)
(* core/src/compiler/front/analyzers/aggregation.rs                        *)
(***************************************************************************)
\* visits of visit_reduce in one run of the analysis
MaxReduces == 2

Implies(left, right) == [kind |-> "Implies", left |-> left, right |-> right]

\* AggregationAnalysisError; the operator and the reduce carry their location
NonMinMaxAggregationHasArgument(op) == [kind |-> "NonMinMaxAggregationHasArgument", op |-> op]
UnknownAggregator(agg, loc) == [kind |-> "UnknownAggregator", agg |-> agg, loc |-> loc]
ForallBodyNotImplies(loc) == [kind |-> "ForallBodyNotImplies", loc |-> loc]
EmptyBinding(agg, loc) == [kind |-> "EmptyBinding", agg |-> agg, loc |-> loc]

ReduceOperators ==
  {ReduceOperator(n) : n \in {"Max", "Min", "Forall", "Exists", "Count", "Sum", "Unique"}}
    \cup {UnknownOperator("avg")}
AnalysedReduces ==
  {Reduce(1, <<"z">>, op, bindings, args, body, None) :
     op \in ReduceOperators, bindings \in {<<>>, <<"y">>}, args \in {<<>>, <<"x">>},
     body \in {Atom(<<"y">>), Implies(Atom(<<"y">>), Atom(<<"x", "y">>)),
               Conjunction(<<Implies(Atom(<<"y">>), Atom(<<"x", "y">>)), Atom(<<"y">>)>>)}}

\* visit_reduce making the binding check only when the first match pushed nothing
visit_reduce_binding_check_else(self_errors, reduce, item) ==
  LET node == reduce.operator.node
      loc == <<item, "reduce", 0>>
      operator == reduce.operator @@ [loc |-> <<item, "operator", 0>>]
      arg_check ==
        CASE node \in {"Max", "Min"} -> <<>>
          [] node = "Forall" ->
               IF reduce.body.kind = "Implies" THEN <<>> ELSE <<ForallBodyNotImplies(loc)>>
          [] node = "Unknown" -> <<UnknownAggregator(reduce.operator.name, loc)>>
          [] OTHER ->
               IF reduce.args # <<>> THEN <<NonMinMaxAggregationHasArgument(operator)>> ELSE <<>>
      binding_check ==
        IF reduce.bindings = <<>> /\ arg_check = <<>>
        THEN IF node \in {"Exists", "Forall", "Unknown"} THEN <<>> ELSE <<EmptyBinding(node, loc)>>
        ELSE <<>>
  IN  self_errors \o arg_check \o binding_check

\* visit_reduce looking for an implication anywhere in the body of a forall
visit_reduce_forall_nested_implies(self_errors, reduce, item) ==
  LET node == reduce.operator.node
      loc == <<item, "reduce", 0>>
      operator == reduce.operator @@ [loc |-> <<item, "operator", 0>>]
      has_implies ==
        \/ reduce.body.kind = "Implies"
        \/ /\ reduce.body.kind = "Conjunction"
           /\ \E k \in DOMAIN reduce.body.args : reduce.body.args[k].kind = "Implies"
      arg_check ==
        CASE node \in {"Max", "Min"} -> <<>>
          [] node = "Forall" -> IF has_implies THEN <<>> ELSE <<ForallBodyNotImplies(loc)>>
          [] node = "Unknown" -> <<UnknownAggregator(reduce.operator.name, loc)>>
          [] OTHER ->
               IF reduce.args # <<>> THEN <<NonMinMaxAggregationHasArgument(operator)>> ELSE <<>>
      binding_check ==
        IF reduce.bindings = <<>>
        THEN IF node \in {"Exists", "Forall", "Unknown"} THEN <<>> ELSE <<EmptyBinding(node, loc)>>
        ELSE <<>>
  IN  self_errors \o arg_check \o binding_check

\* AggregationAnalysis::visit_reduce: the errors after the visit
visit_reduce(self_errors, reduce, item) ==
  LET node == reduce.operator.node
      loc == <<item, "reduce", 0>>
      operator == reduce.operator @@ [loc |-> <<item, "operator", 0>>]
      arg_check ==
        CASE node \in {"Max", "Min"} -> <<>>
          [] node = "Forall" ->
               IF reduce.body.kind = "Implies" THEN <<>> ELSE <<ForallBodyNotImplies(loc)>>
          [] node = "Unknown" -> <<UnknownAggregator(reduce.operator.name, loc)>>
          [] OTHER ->
               IF reduce.args # <<>> THEN <<NonMinMaxAggregationHasArgument(operator)>> ELSE <<>>
      binding_check ==
        IF reduce.bindings = <<>>
        THEN IF node \in {"Exists", "Forall", "Unknown"} THEN <<>> ELSE <<EmptyBinding(node, loc)>>
        ELSE <<>>
  IN  self_errors \o arg_check \o binding_check

\* AggregationAnalysis::new
InitAggregation ==
  /\ agg_errors = <<>>
  /\ agg_visited = <<>>
  /\ IdleBut("aggregation")

VisitReduce ==
  /\ Len(agg_visited) < MaxReduces
  /\ \E reduce \in AnalysedReduces :
       /\ agg_errors' = visit_reduce(agg_errors, reduce, Len(agg_visited) + 1)
       /\ agg_visited' = Append(agg_visited, reduce)
  /\ UnchangedBut("aggregation")

NextAggregation == VisitReduce

SpecAggregation == InitAggregation /\ [][NextAggregation]_vars

\* the errors of a kind recorded for the i-th visited reduce
ReduceErrors(i, kind) ==
  {j \in DOMAIN agg_errors :
     /\ agg_errors[j].kind = kind
     /\ IF kind = "NonMinMaxAggregationHasArgument"
        THEN agg_errors[j].op.loc = <<i, "operator", 0>>
        ELSE agg_errors[j].loc = <<i, "reduce", 0>>}

\* C10: NonMinMaxAggregationHasArgument is recorded for a reduce iff its
\* aggregator is neither max nor min and its argument list is not empty.
C10_NonMinMaxHasArgument ==
  \A i \in DOMAIN agg_visited :
    ReduceErrors(i, "NonMinMaxAggregationHasArgument") # {}
      <=> (agg_visited[i].operator.node \notin {"Max", "Min"} /\ agg_visited[i].args # <<>>)

\* C11: EmptyBinding is recorded for a reduce iff its binding list is empty and
\* its aggregator is not exists, not forall and not unknown, whatever the first
\* match recorded for the same reduce.
C11_EmptyBinding ==
  \A i \in DOMAIN agg_visited :
    /\ ReduceErrors(i, "EmptyBinding") # {}
         <=> /\ agg_visited[i].bindings = <<>>
             /\ agg_visited[i].operator.node \notin {"Exists", "Forall", "Unknown"}
    /\ Cardinality(ReduceErrors(i, "EmptyBinding")) <= 1

\* a count with an argument and no binding has both errors, the argument error first
C11_Witness ==
  \E i \in DOMAIN agg_visited :
    /\ agg_visited[i].operator.node = "Count"
    /\ agg_visited[i].bindings = <<>> /\ agg_visited[i].args # <<>>
    /\ \E j \in ReduceErrors(i, "NonMinMaxAggregationHasArgument") :
         j + 1 \in ReduceErrors(i, "EmptyBinding")

\* C12: ForallBodyNotImplies is recorded for a reduce iff its aggregator is
\* forall and the top-level form of its body is not an implication.
C12_ForallBodyNotImplies ==
  \A i \in DOMAIN agg_visited :
    /\ ReduceErrors(i, "ForallBodyNotImplies") # {}
         <=> /\ agg_visited[i].operator.node = "Forall"
             /\ agg_visited[i].body.kind # "Implies"
    /\ Cardinality(ReduceErrors(i, "ForallBodyNotImplies")) <= 1

\* a forall over a conjunction that holds an implication is reported, and a
\* forall over an implication is not
C12_Witness ==
  /\ \E i \in DOMAIN agg_visited :
       /\ agg_visited[i].operator.node = "Forall"
       /\ agg_visited[i].body.kind = "Conjunction"
       /\ ReduceErrors(i, "ForallBodyNotImplies") # {}
  /\ \E i \in DOMAIN agg_visited :
       /\ agg_visited[i].operator.node = "Forall"
       /\ agg_visited[i].body.kind = "Implies"
       /\ ReduceErrors(i, "ForallBodyNotImplies") = {}

(***************************************************************************)
(* Properties of the boundness analysis.                                   *)
(***************************************************************************)
Computed == IsSome(rule_boundness)
BodyResult == Unwrap(body_boundness)
RuleResult == Unwrap(rule_boundness)
Conjuncts == Unwrap(rule_ctx).body
ConjunctResult(i) == ConjunctionContext_compute_boundness(Conjuncts[i])

\* C5: a disjunction whose conjuncts all succeed is bounded by the intersection
\* of their sets (the empty set without conjuncts); otherwise the result is the
\* errors of the first failing conjunct.
C5_DisjunctionIntersection ==
  Computed =>
    LET failed == {i \in DOMAIN Conjuncts : ~ConjunctResult(i).ok} IN
    IF failed = {}
    THEN /\ BodyResult.ok
         /\ \A v \in {"x", "y", "z"} :
              v \in BodyResult.val <=>
                (Conjuncts # <<>> /\ \A i \in DOMAIN Conjuncts : v \in ConjunctResult(i).val)
         /\ BodyResult.val \subseteq {"x", "y", "z"}
    ELSE /\ ~BodyResult.ok
         /\ \A i \in failed : (\A j \in failed : i <= j) => BodyResult.err = ConjunctResult(i).err

\* C5 witness: the conjuncts succeed and the intersection is smaller than
\* the set of the first one
C5_Witness ==
  /\ Computed
  /\ Len(Conjuncts) >= 2
  /\ BodyResult.ok
  /\ BodyResult.val # {}
  /\ BodyResult.val # ConjunctResult(1).val

\* the variable occurrences of a head, as a set
RECURSIVE ExprOccurrences(_)
ExprOccurrences(e) ==
  CASE e.kind = "Variable" -> {<<e.name, e.loc>>}
    [] e.kind = "Binary" -> ExprOccurrences(e.op1) \cup ExprOccurrences(e.op2)
    [] OTHER -> {}
HeadOccurrences(head) ==
  LET atoms == IF head.kind = "Atom" THEN <<head.atom>> ELSE head.atoms IN
  UNION {UNION {ExprOccurrences(atoms[i].args[j]) : j \in DOMAIN atoms[i].args} : i \in DOMAIN atoms}

\* C6: with a body that succeeds, the rule is Ok(bounded set of the body) iff
\* every head variable is in it, and otherwise fails with the single error
\* HeadExprUnbound at the first unbounded head variable (head locations are
\* numbered left to right).
C6_HeadVariables ==
  (Computed /\ BodyResult.ok) =>
    LET unbound == {o \in HeadOccurrences(rule.head) : o[1] \notin BodyResult.val} IN
    /\ RuleResult.ok <=> unbound = {}
    /\ RuleResult.ok => RuleResult.val = BodyResult.val
    /\ ~RuleResult.ok =>
         \E o \in unbound :
           /\ \A q \in unbound : o[2][3] <= q[2][3]
           /\ RuleResult.err = <<HeadExprUnbound(o[2])>>

\* C6 witness: two head variables are unbounded and the first one is reported
C6_Witness ==
  /\ Computed /\ BodyResult.ok
  /\ Cardinality({o \in HeadOccurrences(rule.head) : o[1] \notin BodyResult.val}) = 2
  /\ ~RuleResult.ok

\* the reductions of a formula
RECURSIVE ReducesOf(_)
ReducesOf(f) ==
  CASE f.kind = "Reduce" -> {f}
    [] f.kind \in {"Conjunction", "Disjunction"} -> UNION {ReducesOf(f.args[i]) : i \in DOMAIN f.args}
    [] OTHER -> {}

JoinedFormula(r) ==
  IF IsSome(r.group_by) THEN Conjunction(<<r.body, Unwrap(r.group_by).formula>>) ELSE r.body
\* the bounded set of the body /\ group-by formula of a reduction
JoinedBoundness(r) == DisjunctionContext_compute_boundness(from_formula(JoinedFormula(r)))
GroupByBoundness(r) ==
  IF IsSome(r.group_by)
  THEN RuleContext_compute_boundness(from_qualified(Unwrap(r.group_by).bindings, <<>>,
                                                    Unwrap(r.group_by).formula))
  ELSE Ok({})
ReduceBoundness(r) == AggregationContext_compute_boundness(AggregationContext_from_reduce(r))

\* C7: a reduction with an argument variable that its body /\ group-by formula
\* does not bound is rejected with ReduceArgUnbound at that argument (stated
\* for reductions whose group-by and binding variables are in order).
C7_ReduceArgUnbound ==
  IsSome(rule_ctx) =>
    \A r \in ReducesOf(rule.body) :
      (/\ GroupByBoundness(r).ok
       /\ JoinedBoundness(r).ok
       /\ Names(r.bindings) \subseteq JoinedBoundness(r).val) =>
         \A k \in DOMAIN r.args :
           r.args[k].name \notin JoinedBoundness(r).val =>
             ReduceBoundness(r) = Err(<<ReduceArgUnbound(r.args[k].loc)>>)

\* C8: a reduction that succeeds publishes (bounded set of body /\ group-by
\* minus the binding names) \cup result names \cup argument names; a binding
\* variable that is neither result nor argument is not published, and a
\* conjunction that is just the reduction is bounded by exactly that set.
C8_ReducePublishes ==
  Computed =>
    \A r \in ReducesOf(rule.body) :
      ReduceBoundness(r).ok =>
        LET published == (JoinedBoundness(r).val \ Names(r.bindings))
                           \cup Names(r.left) \cup Names(r.args)
        IN  /\ JoinedBoundness(r).ok
            /\ ReduceBoundness(r).val = published
            /\ \A b \in Names(r.bindings) :
                 b \notin Names(r.left) \cup Names(r.args) => b \notin ReduceBoundness(r).val
            /\ rule.body = r => BodyResult = Ok(published)
            /\ (rule.body.kind = "Conjunction" /\ BodyResult.ok) => published \subseteq BodyResult.val

\* C8 witness: the body of the rule is a reduction that succeeds, whose
\* binding variable x is bounded by its body and is not published
C8_Witness ==
  /\ Computed
  /\ rule.body.kind = "Reduce"
  /\ BodyResult.ok
  /\ "x" \in Names(rule.body.bindings)
  /\ "x" \in JoinedBoundness(rule.body).val
  /\ "x" \notin BodyResult.val

\* the variables of a formula inside and outside of negated atoms
RECURSIVE NegatedVars(_)
NegatedVars(f) ==
  CASE f.kind = "NegAtom" -> Range(f.args)
    [] f.kind \in {"Conjunction", "Disjunction"} -> UNION {NegatedVars(f.args[i]) : i \in DOMAIN f.args}
    [] OTHER -> {}
RECURSIVE OtherVars(_)
OtherVars(f) ==
  CASE f.kind = "Atom" -> Range(f.args)
    [] f.kind = "Constraint" -> {f.lhs} \cup Range(f.rhs)
    [] f.kind \in {"Conjunction", "Disjunction"} -> UNION {OtherVars(f.args[i]) : i \in DOMAIN f.args}
    [] f.kind = "Reduce" ->
         Names(f.left) \cup Names(f.bindings) \cup Names(f.args) \cup NegatedVars(f.body)
           \cup OtherVars(f.body)
           \cup (IF IsSome(f.group_by)
                 THEN Names(Unwrap(f.group_by).bindings) \cup OtherVars(Unwrap(f.group_by).formula)
                 ELSE {})
    [] OTHER -> {}
OnlyNegated(f) == NegatedVars(f) \ OtherVars(f)

\* what the positive side of a conjunct can bound: atom arguments, the left
\* side of constraints, and what its aggregations publish
PositiveSources(c) ==
  UNION {IF c.pos_atoms[i].kind = "Atom" THEN Range(c.pos_atoms[i].args) ELSE {c.pos_atoms[i].lhs} :
           i \in DOMAIN c.pos_atoms}
    \cup UNION {AggregationContext_compute_boundness(c.agg_contexts[i]).val : i \in DOMAIN c.agg_contexts}

RECURSIVE ProductOf(_)
ProductOf(ns) == IF ns = <<>> THEN 1 ELSE Head(ns) * ProductOf(Tail(ns))

\* conjs is the conjunct list of formula, given the conjunct lists of its operands
NormalForm(formula, conjs) ==
  CASE formula.kind \in {"Atom", "Constraint"} ->
         conjs = << [pos_atoms |-> <<formula>>, neg_atoms |-> <<>>, agg_contexts |-> <<>>] >>
    [] formula.kind = "NegAtom" ->
         conjs = << [pos_atoms |-> <<>>, neg_atoms |-> <<formula>>, agg_contexts |-> <<>>] >>
    [] formula.kind = "Reduce" ->
         /\ Len(conjs) = 1
         /\ conjs[1].pos_atoms = <<>> /\ conjs[1].neg_atoms = <<>>
         /\ Len(conjs[1].agg_contexts) = 1
         /\ conjs[1].agg_contexts[1].result_vars = formula.left
         /\ conjs[1].agg_contexts[1].aggregate_op = formula.operator
         /\ conjs[1].agg_contexts[1].arg_vars = formula.args
    [] formula.kind = "Disjunction" ->
         LET operands == [i \in DOMAIN formula.args |-> from_formula(formula.args[i])]
         IN  conjs = Flatten(operands)
    [] formula.kind = "Conjunction" ->
         LET operands == [i \in DOMAIN formula.args |-> from_formula(formula.args[i])]
             counts == [i \in DOMAIN operands |-> Len(operands[i])]
             longest == IF counts = <<>> THEN 0 ELSE Max(Range(counts))
             choices == {c \in [DOMAIN operands -> 1 .. longest] :
                           \A i \in DOMAIN operands : c[i] <= counts[i]}
             chosen(c) ==
               [pos_atoms |-> Flatten([i \in DOMAIN operands |-> operands[i][c[i]].pos_atoms]),
                neg_atoms |-> Flatten([i \in DOMAIN operands |-> operands[i][c[i]].neg_atoms]),
                agg_contexts |-> Flatten([i \in DOMAIN operands |-> operands[i][c[i]].agg_contexts])]
         IN  /\ Len(conjs) = ProductOf(counts)
             /\ \A c \in choices : \E n \in DOMAIN conjs : conjs[n] = chosen(c)
             /\ \A n \in DOMAIN conjs : \E c \in choices : conjs[n] = chosen(c)

\* C29: from_formula gives a leaf one conjunct holding the leaf (an atom or a
\* constraint among the positive atoms, a negated atom among the negated ones, a
\* reduce as one aggregation), a disjunction the concatenation of its operands'
\* conjunct lists, and a conjunction one conjunct per element of the cartesian
\* product of its operands' lists, each holding the positive atoms, negated atoms
\* and aggregations of the chosen operand conjuncts in operand order; the same
\* holds of every operand that is itself a conjunction or a disjunction.
C29_DisjunctiveNormalForm ==
  IsSome(rule_ctx) =>
    /\ NormalForm(rule.body, Unwrap(rule_ctx).body)
    /\ rule.body.kind \in {"Conjunction", "Disjunction"} =>
         \A i \in DOMAIN rule.body.args :
           NormalForm(rule.body.args[i], from_formula(rule.body.args[i]))

\* (x or not z) and (y or x): four conjuncts, the second one holding x and y
C29_Witness ==
  /\ IsSome(rule_ctx)
  /\ rule.body = Conjunction(<<Disjunction(<<Atom(<<"x">>), NegAtom(<<"z">>)>>),
                               Disjunction(<<Atom(<<"y">>), Atom(<<"x">>)>>)>>)
  /\ Len(Unwrap(rule_ctx).body) = 4
  /\ Unwrap(rule_ctx).body[1].pos_atoms = <<Atom(<<"x">>), Atom(<<"y">>)>>
  /\ Unwrap(rule_ctx).body[3].neg_atoms = <<NegAtom(<<"z">>)>>

(***************************************************************************)
(* ==================  SOURCE RELATIONS OF A RAM DATAFLOW  =============== *)
(* core/src/compiler/ram/ast.rs                                            *)
(***************************************************************************)
\* constructors applied on top of a leaf
MaxDepth == 2

\* enum Dataflow: the leaves
Unit == [kind |-> "Unit"]
UntaggedVec == [kind |-> "UntaggedVec"]
Relation(r) == [kind |-> "Relation", name |-> r]
ForeignPredicateGround(p) == [kind |-> "ForeignPredicateGround", name |-> p]
\* Dataflow::Reduce(Reduce {op, predicate, group_by}); group_by Join(r) is Some(r)
DataflowReduce(predicate, group_by) ==
  [kind |-> "Reduce", predicate |-> predicate, group_by |-> group_by]
\* enum Dataflow: the nodes over one or two dataflows
Unary(kind, d) == [kind |-> kind, d |-> d]
Binary(kind, d1, d2) == [kind |-> kind, d1 |-> d1, d2 |-> d2]
\* Dataflow::exclusion: the right operand is the constant vector it is given
Exclusion(d) == [kind |-> "Exclusion", d |-> d, right |-> UntaggedVec]

BinaryKinds == {"Union", "Join", "Intersect", "Product", "Antijoin", "Difference"}
UnaryKinds == {"Project", "Filter", "Find", "OverwriteOne",
               "ForeignPredicateConstraint", "ForeignPredicateJoin"}

DataflowLeaves ==
  {Unit, UntaggedVec, ForeignPredicateGround("a"), Relation("a"), Relation("b"),
   DataflowReduce("b", None), DataflowReduce("c", Some("a"))}
OperandLeaves == {UntaggedVec, Relation("b"), DataflowReduce("c", Some("a"))}

\* Reduce::source_relation
source_relation(r) == r.predicate

RECURSIVE source_relations(_)
\* source_relations keeping only the left operand of a binary node
source_relations_left_operand(self) ==
  CASE self.kind = "Unit" -> {}
    [] self.kind \in BinaryKinds -> source_relations(self.d1)
    [] self.kind \in UnaryKinds \cup {"Exclusion"} -> source_relations(self.d)
    [] self.kind = "Reduce" -> {source_relation(self)}
    [] self.kind = "Relation" -> {self.name}
    [] OTHER -> {}

\* Dataflow::source_relations
source_relations(self) ==
  CASE self.kind = "Unit" -> {}
    [] self.kind \in BinaryKinds -> source_relations(self.d1) \cup source_relations(self.d2)
    [] self.kind \in UnaryKinds \cup {"Exclusion"} -> source_relations(self.d)
    [] self.kind = "Reduce" -> {source_relation(self)}
    [] self.kind = "Relation" -> {self.name}
    [] self.kind \in {"ForeignPredicateGround", "UntaggedVec"} -> {}

\* Dataflow::unit, Dataflow::relation, Dataflow::reduce and the leaf variants
InitRam ==
  /\ dataflow \in DataflowLeaves
  /\ sources = None
  /\ IdleBut("ram")

RECURSIVE Depth(_)
Depth(d) ==
  CASE d.kind \in BinaryKinds -> 1 + (IF Depth(d.d1) > Depth(d.d2) THEN Depth(d.d1) ELSE Depth(d.d2))
    [] d.kind \in UnaryKinds \cup {"Exclusion"} -> 1 + Depth(d.d)
    [] OTHER -> 0

CanBuild == sources = None /\ Depth(dataflow) < MaxDepth

\* project, filter, find, overwrite_one, foreign_predicate_constraint, foreign_predicate_join
ApplyUnary ==
  /\ CanBuild
  /\ \E kind \in UnaryKinds : dataflow' = Unary(kind, dataflow)
  /\ UNCHANGED sources
  /\ UnchangedBut("ram")

\* union, join, intersect, product, antijoin, difference
ApplyBinary ==
  /\ CanBuild
  /\ \E kind \in BinaryKinds, d2 \in OperandLeaves :
       \/ dataflow' = Binary(kind, dataflow, d2)
       \/ dataflow' = Binary(kind, d2, dataflow)
  /\ UNCHANGED sources
  /\ UnchangedBut("ram")

\* exclusion
ApplyExclusion ==
  /\ CanBuild
  /\ dataflow' = Exclusion(dataflow)
  /\ UNCHANGED sources
  /\ UnchangedBut("ram")

SourceRelations ==
  /\ sources = None
  /\ sources' = Some(source_relations(dataflow))
  /\ UNCHANGED dataflow
  /\ UnchangedBut("ram")

NextRam == ApplyUnary \/ ApplyBinary \/ ApplyExclusion \/ SourceRelations

SpecRam == InitRam /\ [][NextRam]_vars

\* the dataflows a node holds, whatever its variant
Operands(d) ==
  CASE d.kind \in BinaryKinds -> {d.d1, d.d2}
    [] d.kind = "Exclusion" -> {d.d, d.right}
    [] d.kind \in UnaryKinds -> {d.d}
    [] OTHER -> {}

\* every node of the tree
RECURSIVE Nodes(_)
Nodes(d) == {d} \cup UNION {Nodes(o) : o \in Operands(d)}

\* C13: source_relations returns exactly the names of the Relation leaves and the
\* predicates of the Reduce nodes of the tree, and nothing for Unit, UntaggedVec
\* and ForeignPredicateGround leaves.
C13_SourceRelations ==
  IsSome(sources) =>
    /\ Unwrap(sources)
         = {n.name : n \in {x \in Nodes(dataflow) : x.kind = "Relation"}}
             \cup {n.predicate : n \in {x \in Nodes(dataflow) : x.kind = "Reduce"}}
    /\ dataflow.kind \in {"Unit", "UntaggedVec", "ForeignPredicateGround"}
         => Unwrap(sources) = {}

\* a relation and a reduce in the two operands of a binary node under a unary
\* node: both names are returned, the relation the reduce is grouped by is not
C13_Witness ==
  /\ IsSome(sources)
  /\ dataflow.kind \in UnaryKinds
  /\ dataflow.d.kind \in BinaryKinds
  /\ dataflow.d.d1 = Relation("b")
  /\ dataflow.d.d2 = DataflowReduce("c", Some("a"))
  /\ Unwrap(sources) = {"b", "c"}

(***************************************************************************)
(* ==========================  CSV INPUT / OUTPUT  ======================= *)
(* core/src/runtime/dynamic/io.rs                                          *)
(* The csv crate is used through write_record and records(): the file is   *)
(* the sequence of records the reader yields, each Ok(fields) or Err.      *)
(***************************************************************************)
\* records of one file, tuples of one store_csv call
MaxRows == 2

\* TupleType
ValueTy(t) == [kind |-> "Value", ty |-> t]
TupleTy(ts) == [kind |-> "Tuple", ts |-> ts]

\* Value; a value carries its type, the payload field of the other types stays at rest
I32(i) == [ty |-> "i32", i |-> i, s |-> ""]
Bool(b) == [ty |-> "bool", i |-> IF b THEN 1 ELSE 0, s |-> ""]
String(s) == [ty |-> "String", i |-> 0, s |-> s]
I32Values == {-1, 0, 12}

\* DynamicInputTag
TagNone == [kind |-> "None", p |-> ""]
TagProb(p) == [kind |-> "Prob", p |-> p]

\* IOError
InvalidType(types) == [kind |-> "InvalidType", types |-> types]
CannotOpenFile == [kind |-> "CannotOpenFile"]
CannotParseCSV == [kind |-> "CannotParseCSV"]
ArityMismatch(expected, found) == [kind |-> "ArityMismatch", expected |-> expected, found |-> found]
CannotParseProbability(value) == [kind |-> "CannotParseProbability", value |-> value]
ValueParseError(r) == [kind |-> "ValueParseError", error |-> r]

\* a panic of the thread: no value is returned
Panic(msg) == [ok |-> FALSE, err |-> [kind |-> "panic", msg |-> msg]]

\* usize: n, or 2^64 - n when the subtraction wrapped
Usize(n) == [wrapped |-> FALSE, n |-> n]
\* a - b on usize: with overflow checks an underflow panics, without it wraps
usize_sub(a, b, overflow_checks) ==
  IF a >= b THEN Ok(Usize(a - b))
  ELSE IF overflow_checks THEN Panic("attempt to subtract with overflow")
       ELSE Ok([wrapped |-> TRUE, n |-> b - a])

\* impl Display for Value: the canonical formatter
ValueDisplay(v) ==
  CASE v.ty = "i32" -> ToString(v.i)
    [] v.ty = "bool" -> IF v.i = 1 THEN "true" ELSE "false"
    [] v.ty = "String" -> v.s

\* ValueType::parse
ValueTypeParse(t, r) ==
  CASE t = "i32" ->
         IF \E i \in I32Values : ToString(i) = r
         THEN Ok(I32(CHOOSE i \in I32Values : ToString(i) = r))
         ELSE Err(ValueParseError(r))
    [] t = "bool" -> IF r \in {"true", "false"} THEN Ok(Bool(r = "true")) ELSE Err(ValueParseError(r))
    [] t = "String" -> Ok(String(r))

\* impl FromStr for DynamicInputTag
ParseDynamicInputTag(str) ==
  IF str \in {"0.5", "1"} THEN Ok(TagProb(str)) ELSE Err(CannotParseProbability(str))

\* get_value_types
get_value_types(types) ==
  IF types.kind = "Tuple"
  THEN IF \A k \in DOMAIN types.ts : types.ts[k].kind = "Value"
       THEN Ok([k \in DOMAIN types.ts |-> types.ts[k].ty])
       ELSE Err(InvalidType(types))
  ELSE Err(InvalidType(types))

\* ReaderBuilder::has_headers: with a header the first record is not a row
Records(file, has_header) ==
  IF has_header /\ file # <<>> /\ Head(file).ok THEN Tail(file) ELSE file

\* the rows loop of load_csv (io.rs:51-78): the value returned and the number of
\* the row the loop was at (one past the last row when it ran to the end)
RECURSIVE load_rows(_, _, _, _, _, _)
load_rows(rows, k, result, has_probability, value_types, overflow_checks) ==
  IF k > Len(rows) THEN [result |-> Ok(result), row |-> k]
  ELSE
    LET probability_offset == IF has_probability THEN 1 ELSE 0
        row == rows[k]
    IN
    IF ~row.ok THEN [result |-> Err(CannotParseCSV), row |-> k]
    ELSE
      LET record == row.val
          diff == usize_sub(Len(record), probability_offset, overflow_checks)
      IN
      IF ~diff.ok THEN [result |-> diff, row |-> k]
      ELSE IF diff.val # Usize(Len(value_types))
      THEN [result |-> Err(ArityMismatch(Len(value_types), Len(record))), row |-> k]
      ELSE
        LET tag == IF has_probability THEN ParseDynamicInputTag(record[1]) ELSE Ok(TagNone)
            \* skip(probability_offset).zip(value_types)
            n == IF Len(record) - probability_offset < Len(value_types)
                 THEN Len(record) - probability_offset ELSE Len(value_types)
            values == [i \in 1..n |-> ValueTypeParse(value_types[i], record[i + probability_offset])]
            failed == {i \in 1..n : ~values[i].ok}
        IN
        IF ~tag.ok THEN [result |-> tag, row |-> k]
        ELSE IF failed # {}
        THEN [result |-> values[CHOOSE i \in failed : \A j \in failed : i <= j], row |-> k]
        ELSE load_rows(rows, k + 1, Append(result, <<tag.val, [i \in 1..n |-> values[i].val]>>),
                       has_probability, value_types, overflow_checks)

\* load_csv; file is None when there is no file at file_path
load_csv(file, has_header, has_probability, types, overflow_checks) ==
  LET value_types == get_value_types(types) IN
  IF ~value_types.ok THEN [result |-> value_types, row |-> 0]
  ELSE IF file = None THEN [result |-> Err(CannotOpenFile), row |-> 0]
  ELSE load_rows(Records(Unwrap(file), has_header), 1, <<>>, has_probability,
                 value_types.val, overflow_checks)

\* store_csv writing each value with its debug form
store_csv_debug_format(tuples) ==
  [t \in DOMAIN tuples |-> Ok([i \in DOMAIN tuples[t] |-> ToString(ValueDisplay(tuples[t][i]))])]

\* store_csv: one record per tuple, one field per value
store_csv(tuples) ==
  [t \in DOMAIN tuples |-> Ok([i \in DOMAIN tuples[t] |-> ValueDisplay(tuples[t][i])])]

\* the fields and the records of a file that was not written by store_csv
Fields == {"1", "x", "0.5"}
FileRecords == {Ok(<<>>), Err(CannotParseCSV)} \cup {Ok(r) : r \in SeqsUpTo(Fields, 1, 2)}
Files == SeqsUpTo(FileRecords, 0, MaxRows)

\* the tuple types load_csv is called with, and the ones store_csv is given tuples of
LoadTypes ==
  {TupleTy(<<>>), TupleTy(<<ValueTy("i32")>>), TupleTy(<<ValueTy("i32"), ValueTy("String")>>),
   TupleTy(<<ValueTy("bool"), ValueTy("String")>>),
   ValueTy("i32"), TupleTy(<<TupleTy(<<ValueTy("i32")>>)>>)}
StoreTypes ==
  {TupleTy(<<ValueTy("i32")>>), TupleTy(<<ValueTy("i32"), ValueTy("String")>>),
   TupleTy(<<ValueTy("bool"), ValueTy("String")>>)}
ValuesOf(t) ==
  CASE t = "i32" -> {I32(-1), I32(12)}
    [] t = "bool" -> {Bool(TRUE)}
    [] t = "String" -> {String("x"), String("1")}
TuplesOf(types) ==
  {tup \in [DOMAIN types.ts -> UNION {ValuesOf(types.ts[k].ty) : k \in DOMAIN types.ts}] :
     \A k \in DOMAIN types.ts : tup[k] \in ValuesOf(types.ts[k].ty)}

InitCsv ==
  /\ csv_file \in {None} \cup {Some(f) : f \in Files}
  /\ csv_stored = None
  /\ csv_loaded = None
  /\ IdleBut("csv")

StoreCsv ==
  /\ csv_file = None /\ csv_loaded = None
  /\ \E types \in StoreTypes :
       \E tuples \in SeqsUpTo(TuplesOf(types), 0, MaxRows) :
         /\ csv_file' = Some(store_csv(tuples))
         /\ csv_stored' = Some([types |-> types, tuples |-> tuples])
  /\ UNCHANGED csv_loaded
  /\ UnchangedBut("csv")

LoadCsv ==
  /\ csv_loaded = None
  /\ \E has_header \in BOOLEAN, has_probability \in BOOLEAN, types \in LoadTypes,
        overflow_checks \in BOOLEAN :
       csv_loaded' =
         Some([has_header |-> has_header, has_probability |-> has_probability, types |-> types,
               overflow_checks |-> overflow_checks]
              @@ load_csv(csv_file, has_header, has_probability, types, overflow_checks))
  /\ UNCHANGED <<csv_file, csv_stored>>
  /\ UnchangedBut("csv")

NextCsv == StoreCsv \/ LoadCsv

SpecCsv == InitCsv /\ [][NextCsv]_vars

(***************************************************************************)
(* Properties of the CSV input and output.                                 *)
(***************************************************************************)
Loaded == Unwrap(csv_loaded)
\* the rows of the load_csv call made, and the arity of the type it was given
LoadedRows == Records(Unwrap(csv_file), Loaded.has_header)
LoadedArity == Len(get_value_types(Loaded.types).val)
\* load_csv opened the file and entered the loop over its rows
RowsLoaded == IsSome(csv_loaded) /\ IsSome(csv_file) /\ get_value_types(Loaded.types).ok
\* the loop got to row k, and the reader gave a record for it
RowReached(k) == k \in DOMAIN LoadedRows /\ LoadedRows[k].ok /\ Loaded.row >= k
FailedAt(k, kind) == Loaded.row = k /\ ~Loaded.result.ok /\ Loaded.result.err.kind = kind

Stored == Unwrap(csv_stored)
\* the file written by store_csv was read back by load_csv with the tuple type of
\* the tuples and no probability column
ReadBack ==
  /\ IsSome(csv_stored) /\ IsSome(csv_loaded)
  /\ Loaded.types = Stored.types
  /\ ~Loaded.has_probability
Untagged(tuples) == [k \in DOMAIN tuples |-> <<TagNone, tuples[k]>>]

RowOffset == IF Loaded.has_probability THEN 1 ELSE 0
RowTag(k) ==
  IF Loaded.has_probability THEN ParseDynamicInputTag(LoadedRows[k].val[1]) ELSE Ok(TagNone)
RowValues(k) ==
  LET value_types == get_value_types(Loaded.types).val
  IN  [i \in DOMAIN value_types |-> ValueTypeParse(value_types[i], LoadedRows[k].val[i + RowOffset])]
\* the errors of a row: the CSV error, else the arity mismatch, else the errors
\* of its tag and of its values
RowErrors(k) ==
  IF ~LoadedRows[k].ok THEN {CannotParseCSV}
  ELSE IF Len(LoadedRows[k].val) - RowOffset # LoadedArity
  THEN {ArityMismatch(LoadedArity, Len(LoadedRows[k].val))}
  ELSE {RowTag(k).err : x \in {y \in {0} : ~RowTag(k).ok}}
         \cup {RowValues(k)[i].err : i \in {j \in DOMAIN RowValues(k) : ~RowValues(k)[j].ok}}
\* the call ended in the panic of the subtraction at the row
PanickedAt(k) ==
  /\ Loaded.row = k /\ ~Loaded.result.ok /\ Loaded.result.err.kind = "panic"
  /\ Loaded.overflow_checks /\ Loaded.has_probability /\ LoadedRows[k] = Ok(<<>>)

\* all or nothing, in file order; panics says whether a call that ends in the
\* panic of a row counts as the failure of that row
AllOrNothing(panics) ==
  RowsLoaded =>
    LET failing == {k \in DOMAIN LoadedRows : RowErrors(k) # {}}
    IN  IF failing = {}
        THEN Loaded.result =
               Ok([k \in DOMAIN LoadedRows |->
                     <<RowTag(k).val, [i \in DOMAIN RowValues(k) |-> RowValues(k)[i].val]>>])
        ELSE LET first == Min(failing)
             IN  \/ /\ ~Loaded.result.ok /\ Loaded.row = first
                    /\ Loaded.result.err \in RowErrors(first)
                 \/ panics /\ PanickedAt(first)

MaxBatch == 3

\* CNFDNFFormula::dnf_zero, dnf_one, dnf_singleton
dnf_zero == [kind |-> "dnf_zero"]
dnf_one == [kind |-> "dnf_one"]
dnf_singleton(fact_id) == [kind |-> "dnf_singleton", fact_id |-> fact_id]

\* Provenance::zero, one, add, mult, negate of TopBottomKClausesProvenance
zero(self) == dnf_zero
one(self) == dnf_one
add(self, t1, t2) == [kind |-> "top_bottom_k_add", t1 |-> t1, t2 |-> t2, k |-> self.k]
mult(self, t1, t2) == [kind |-> "top_bottom_k_mult", t1 |-> t1, t2 |-> t2, k |-> self.k]
negate(self, t) == Some([kind |-> "base_negate", t |-> t])
top_bottom_k_tag_of_chosen_set(self, tags, chosen_set, k) ==
  [kind |-> "top_bottom_k_tag_of_chosen_set", tags |-> tags, chosen_set |-> chosen_set, k |-> k]

\* DynamicElement::new, StaticElement::new
Element(tuple, tag) == [tuple |-> tuple, tag |-> tag]
Tags(elems) == [i \in DOMAIN elems |-> elems[i].tag]

\* Itertools::powerset of 0..n: the subsets by size, each size in lexicographic order
RECURSIVE combinations(_, _, _)
combinations(lo, n, r) ==
  IF r = 0 THEN << <<>> >>
  ELSE IF lo >= n THEN <<>>
  ELSE LET with == combinations(lo + 1, n, r - 1)
       IN  [c \in DOMAIN with |-> <<lo>> \o with[c]] \o combinations(lo + 1, n, r)
RECURSIVE powerset_from(_, _)
powerset_from(n, r) == IF r > n THEN <<>> ELSE combinations(0, n, r) \o powerset_from(n, r + 1)
\* the powerset without the empty subset
powerset_nonempty(n) == powerset_from(n, 1)
powerset(n) == powerset_from(n, 0)

\* dynamic_count without the branch for the empty batch
dynamic_count_without_empty_branch(self, elems) ==
  LET sets == powerset(Len(elems))
  IN  [c \in DOMAIN sets |->
         Element(Len(sets[c]), top_bottom_k_tag_of_chosen_set(self, Tags(elems), sets[c], self.k))]

\* dynamic_count
dynamic_count(self, elems) ==
  IF elems = <<>>
  THEN <<Element(0, one(self))>>
  ELSE LET sets == powerset(Len(elems))
       IN  [c \in DOMAIN sets |->
              Element(Len(sets[c]), top_bottom_k_tag_of_chosen_set(self, Tags(elems), sets[c], self.k))]

\* the loop `for j in lo..hi { agg_tag = mult(agg_tag, negate(batch[j].tag).unwrap()) }`,
\* with the indices of the model (from 1)
RECURSIVE mult_negations(_, _, _, _, _)
mult_negations(self, agg_tag, elems, lo, hi) ==
  IF lo > hi THEN agg_tag
  ELSE mult_negations(self, mult(self, agg_tag, Unwrap(negate(self, elems[lo].tag))), elems, lo + 1, hi)

\* dynamic_min multiplying the tags before i without negating them
dynamic_min_without_negate(self, elems) ==
  [i \in DOMAIN elems |->
     LET RECURSIVE mults(_, _)
         mults(agg_tag, j) == IF j >= i THEN agg_tag ELSE mults(mult(self, agg_tag, elems[j].tag), j + 1)
     IN  Element(elems[i].tuple, mult(self, mults(one(self), 1), elems[i].tag))]

\* dynamic_min
dynamic_min(self, elems) ==
  [i \in DOMAIN elems |->
     Element(elems[i].tuple,
             mult(self, mult_negations(self, one(self), elems, 1, i - 1), elems[i].tag))]

\* dynamic_max
dynamic_max(self, elems) ==
  [i \in DOMAIN elems |->
     Element(elems[i].tuple, mult_negations(self, elems[i].tag, elems, i + 1, Len(elems)))]

\* the loop of dynamic_exists: <<exists_tag, not_exists_tag>> after the elements from i on
RECURSIVE exists_tags(_, _, _, _, _)
exists_tags(self, exists_tag, not_exists_tag, elems, i) ==
  IF i > Len(elems) THEN <<exists_tag, not_exists_tag>>
  ELSE exists_tags(self, add(self, exists_tag, elems[i].tag),
                   mult(self, not_exists_tag, Unwrap(negate(self, elems[i].tag))), elems, i + 1)

\* dynamic_exists returning the false element first
dynamic_exists_false_first(self, elems) ==
  LET tags == exists_tags(self, zero(self), one(self), elems, 1)
  IN  <<Element(FALSE, tags[2]), Element(TRUE, tags[1])>>

\* dynamic_exists
dynamic_exists(self, elems) ==
  LET tags == exists_tags(self, zero(self), one(self), elems, 1)
  IN  <<Element(TRUE, tags[1]), Element(FALSE, tags[2])>>

\* static_count, static_min, static_max, static_exists: the same code over StaticElements
static_count(self, elems) ==
  IF elems = <<>>
  THEN <<Element(0, one(self))>>
  ELSE LET sets == powerset(Len(elems))
       IN  [c \in DOMAIN sets |->
              Element(Len(sets[c]), top_bottom_k_tag_of_chosen_set(self, Tags(elems), sets[c], self.k))]
static_min(self, elems) ==
  [i \in DOMAIN elems |->
     Element(elems[i].tuple,
             mult(self, mult_negations(self, one(self), elems, 1, i - 1), elems[i].tag))]
static_max(self, elems) ==
  [i \in DOMAIN elems |->
     Element(elems[i].tuple, mult_negations(self, elems[i].tag, elems, i + 1, Len(elems)))]
static_exists(self, elems) ==
  LET tags == exists_tags(self, zero(self), one(self), elems, 1)
  IN  <<Element(TRUE, tags[1]), Element(FALSE, tags[2])>>

\* ---- DiffTopBottomKClausesProvenance (diff_top_bottom_k_clauses.rs) ----
\* Provenance::zero, one, add, mult, negate
diff_zero(self) == dnf_zero
diff_one(self) == dnf_one
diff_add(self, t1, t2) == [kind |-> "top_bottom_k_add", t1 |-> t1, t2 |-> t2, k |-> self.k]
diff_mult(self, t1, t2) == [kind |-> "top_bottom_k_mult", t1 |-> t1, t2 |-> t2, k |-> self.k]
diff_negate(self, t) == Some([kind |-> "base_negate", t |-> t])

\* dynamic_count
diff_dynamic_count(self, elems) ==
  IF elems = <<>>
  THEN <<Element(0, diff_one(self))>>
  ELSE LET sets == powerset(Len(elems))
       IN  [c \in DOMAIN sets |->
              Element(Len(sets[c]), top_bottom_k_tag_of_chosen_set(self, Tags(elems), sets[c], self.k))]

\* the loop `for j in lo..hi { agg_tag = mult(agg_tag, negate(batch[j].tag).unwrap()) }`
RECURSIVE diff_mult_negations(_, _, _, _, _)
diff_mult_negations(self, agg_tag, elems, lo, hi) ==
  IF lo > hi THEN agg_tag
  ELSE diff_mult_negations(self, diff_mult(self, agg_tag, Unwrap(diff_negate(self, elems[lo].tag))),
                           elems, lo + 1, hi)

\* dynamic_min, dynamic_max
diff_dynamic_min(self, elems) ==
  [i \in DOMAIN elems |->
     Element(elems[i].tuple,
             diff_mult(self, diff_mult_negations(self, diff_one(self), elems, 1, i - 1), elems[i].tag))]
diff_dynamic_max(self, elems) ==
  [i \in DOMAIN elems |->
     Element(elems[i].tuple, diff_mult_negations(self, elems[i].tag, elems, i + 1, Len(elems)))]

\* the loop of dynamic_exists
RECURSIVE diff_exists_tags(_, _, _, _, _)
diff_exists_tags(self, exists_tag, not_exists_tag, elems, i) ==
  IF i > Len(elems) THEN <<exists_tag, not_exists_tag>>
  ELSE diff_exists_tags(self, diff_add(self, exists_tag, elems[i].tag),
                        diff_mult(self, not_exists_tag, Unwrap(diff_negate(self, elems[i].tag))),
                        elems, i + 1)

\* dynamic_exists
diff_dynamic_exists(self, elems) ==
  LET tags == diff_exists_tags(self, diff_zero(self), diff_one(self), elems, 1)
  IN  <<Element(TRUE, tags[1]), Element(FALSE, tags[2])>>

\* static_max starting from one() as static_min does
diff_static_max_from_one(self, elems) ==
  [i \in DOMAIN elems |->
     Element(elems[i].tuple,
             diff_mult_negations(self, diff_mult(self, diff_one(self), elems[i].tag),
                                 elems, i + 1, Len(elems)))]

\* static_count, static_min, static_max, static_exists
diff_static_count(self, elems) ==
  IF elems = <<>>
  THEN <<Element(0, diff_one(self))>>
  ELSE LET sets == powerset(Len(elems))
       IN  [c \in DOMAIN sets |->
              Element(Len(sets[c]), top_bottom_k_tag_of_chosen_set(self, Tags(elems), sets[c], self.k))]
diff_static_min(self, elems) ==
  [i \in DOMAIN elems |->
     Element(elems[i].tuple,
             diff_mult(self, diff_mult_negations(self, diff_one(self), elems, 1, i - 1), elems[i].tag))]
diff_static_max(self, elems) ==
  [i \in DOMAIN elems |->
     Element(elems[i].tuple, diff_mult_negations(self, elems[i].tag, elems, i + 1, Len(elems)))]
diff_static_exists(self, elems) ==
  LET tags == diff_exists_tags(self, diff_zero(self), diff_one(self), elems, 1)
  IN  <<Element(TRUE, tags[1]), Element(FALSE, tags[2])>>

\* the aggregation op of the provenance self: the trait method of its type
aggregate(self, op, elems) ==
  IF self.name = "diff-top-bottom-k-clauses"
  THEN CASE op = "dynamic_count" -> diff_dynamic_count(self, elems)
         [] op = "dynamic_min" -> diff_dynamic_min(self, elems)
         [] op = "dynamic_max" -> diff_dynamic_max(self, elems)
         [] op = "dynamic_exists" -> diff_dynamic_exists(self, elems)
         [] op = "static_count" -> diff_static_count(self, elems)
         [] op = "static_min" -> diff_static_min(self, elems)
         [] op = "static_max" -> diff_static_max(self, elems)
         [] op = "static_exists" -> diff_static_exists(self, elems)
  ELSE CASE op = "dynamic_count" -> dynamic_count(self, elems)
         [] op = "dynamic_min" -> dynamic_min(self, elems)
         [] op = "dynamic_max" -> dynamic_max(self, elems)
         [] op = "dynamic_exists" -> dynamic_exists(self, elems)
         [] op = "static_count" -> static_count(self, elems)
         [] op = "static_min" -> static_min(self, elems)
         [] op = "static_max" -> static_max(self, elems)
         [] op = "static_exists" -> static_exists(self, elems)

\* the two provenances and the tuples and tags of the elements of a batch
Provenances ==
  [name : {"top-bottom-k-clauses", "diff-top-bottom-k-clauses"}, k : {1, 3}]
BatchTuples == {1, 2, 3, 4}
BatchTags == {dnf_singleton(0), dnf_singleton(1), dnf_one}

\* TopBottomKClausesProvenance::new, DiffTopBottomKClausesProvenance::new
InitProv ==
  /\ provenance \in Provenances
  /\ batch = <<>>
  /\ aggregated = None
  /\ IdleBut("provenance")

\* the batch of a group: its elements are sorted by tuple, without duplicates
PushElement ==
  /\ aggregated = None
  /\ Len(batch) < MaxBatch
  /\ \E tuple \in BatchTuples, tag \in BatchTags :
       /\ batch # <<>> => tuple > batch[Len(batch)].tuple
       /\ batch' = Append(batch, Element(tuple, tag))
  /\ UNCHANGED <<provenance, aggregated>>
  /\ UnchangedBut("provenance")

Aggregate(op, elems) ==
  /\ aggregated = None
  /\ aggregated' = Some([op |-> op, elems |-> elems])
  /\ UNCHANGED <<provenance, batch>>
  /\ UnchangedBut("provenance")

DynamicCount == Aggregate("dynamic_count", aggregate(provenance, "dynamic_count", batch))
DynamicMin == Aggregate("dynamic_min", aggregate(provenance, "dynamic_min", batch))
DynamicMax == Aggregate("dynamic_max", aggregate(provenance, "dynamic_max", batch))
DynamicExists == Aggregate("dynamic_exists", aggregate(provenance, "dynamic_exists", batch))
StaticCount == Aggregate("static_count", aggregate(provenance, "static_count", batch))
StaticMin == Aggregate("static_min", aggregate(provenance, "static_min", batch))
StaticMax == Aggregate("static_max", aggregate(provenance, "static_max", batch))
StaticExists == Aggregate("static_exists", aggregate(provenance, "static_exists", batch))

NextProv ==
  \/ PushElement
  \/ DynamicCount \/ DynamicMin \/ DynamicMax \/ DynamicExists
  \/ StaticCount \/ StaticMin \/ StaticMax \/ StaticExists

SpecProv == InitProv /\ [][NextProv]_vars

(***************************************************************************)
(* Properties of the aggregations.                                         *)
(***************************************************************************)
Aggregated == Unwrap(aggregated)
Called(ops) == IsSome(aggregated) /\ Aggregated.op \in ops

\* C16: under both provenances the count aggregation (dynamic_count and
\* static_count) over an empty batch returns exactly one element, the value 0
\* with tag one().
C16_CountOfEmptyBatch ==
  (Called({"dynamic_count", "static_count"}) /\ batch = <<>>)
    => Aggregated.elems = <<Element(0, one(provenance))>>

\* dynamic_count called on an empty batch under the differentiable provenance
C16_Witness ==
  /\ Called({"dynamic_count"}) /\ batch = <<>>
  /\ provenance.name = "diff-top-bottom-k-clauses"
  /\ Len(Aggregated.elems) = 1 /\ Aggregated.elems[1].tag = dnf_one

\* the factors of a product of tags, in order: mult is read as an associative
\* product with identity one()
RECURSIVE Factors(_)
Factors(t) ==
  CASE t.kind = "top_bottom_k_mult" -> Factors(t.t1) \o Factors(t.t2)
    [] t.kind = "dnf_one" -> <<>>
    [] OTHER -> <<t>>
\* negate(tag_j) for the elements lo..hi of the batch, in order
Negations(lo, hi) ==
  [j \in 1..(hi - lo + 1) |-> Unwrap(negate(provenance, batch[lo + j - 1].tag))]

\* C17: min returns one element per element of the batch, element i with tuple i
\* and tag (product of negate(tag_j), j before i) . tag_i; max returns one element
\* per element, element i with tuple i and tag tag_i . (product of negate(tag_j),
\* j after i); over an empty batch both return no element.
C17_MinMaxTags ==
  /\ Called({"dynamic_min", "static_min"}) =>
       /\ Len(Aggregated.elems) = Len(batch)
       /\ \A i \in DOMAIN batch :
            /\ Aggregated.elems[i].tuple = batch[i].tuple
            /\ Factors(Aggregated.elems[i].tag) = Negations(1, i - 1) \o Factors(batch[i].tag)
  /\ Called({"dynamic_max", "static_max"}) =>
       /\ Len(Aggregated.elems) = Len(batch)
       /\ \A i \in DOMAIN batch :
            /\ Aggregated.elems[i].tuple = batch[i].tuple
            /\ Factors(Aggregated.elems[i].tag) = Factors(batch[i].tag) \o Negations(i + 1, Len(batch))

\* min over two elements of different singleton tags: the second element's tag
\* is (one . negate(tag_1)) . tag_2
C17_Witness ==
  /\ Called({"dynamic_min"}) /\ Len(batch) = 2
  /\ batch[1].tag = dnf_singleton(0) /\ batch[2].tag = dnf_singleton(1)
  /\ Aggregated.elems[2].tag
       = mult(provenance,
              mult(provenance, one(provenance), Unwrap(negate(provenance, dnf_singleton(0)))),
              dnf_singleton(1))

\* the folds over the first i elements of the batch
RECURSIVE AddFold(_)
AddFold(i) == IF i = 0 THEN zero(provenance) ELSE add(provenance, AddFold(i - 1), batch[i].tag)
RECURSIVE NegatedMultFold(_)
NegatedMultFold(i) ==
  IF i = 0 THEN one(provenance)
  ELSE mult(provenance, NegatedMultFold(i - 1), Unwrap(negate(provenance, batch[i].tag)))

\* C18: exists returns exactly two elements in this order: true with the add-fold
\* of the element tags from zero(), false with the mult-fold of the negated
\* element tags from one(); (true, zero()) and (false, one()) for an empty batch.
C18_ExistsTags ==
  Called({"dynamic_exists", "static_exists"}) =>
    /\ Aggregated.elems = <<Element(TRUE, AddFold(Len(batch))), Element(FALSE, NegatedMultFold(Len(batch)))>>
    /\ batch = <<>> =>
         Aggregated.elems = <<Element(TRUE, zero(provenance)), Element(FALSE, one(provenance))>>

\* exists over two elements: both folds have taken two steps
C18_Witness ==
  /\ Called({"dynamic_exists"}) /\ Len(batch) = 2
  /\ Aggregated.elems[1].tuple = TRUE
  /\ Aggregated.elems[1].tag.kind = "top_bottom_k_add"
  /\ Aggregated.elems[1].tag.t1.kind = "top_bottom_k_add"
  /\ Aggregated.elems[2].tag.t2 = Unwrap(negate(provenance, batch[2].tag))

\* the number of subsets of size r of a set of n elements
RECURSIVE Binomial(_, _)
Binomial(n, r) ==
  IF r = 0 THEN 1 ELSE IF n = 0 THEN 0 ELSE Binomial(n - 1, r - 1) + Binomial(n - 1, r)

\* C22: over a non-empty batch of n elements count returns exactly 2^n elements,
\* one per subset of the indices 0..n-1 (the empty subset included), each with
\* the size of its subset as value and the tag of that chosen set over the
\* batch's tags with the provenance's k; for every r in 0..n exactly C(n, r)
\* elements carry the value r.
C22_CountPerSubset ==
  (Called({"dynamic_count", "static_count"}) /\ batch # <<>>) =>
    LET n == Len(batch)
        elems == Aggregated.elems
        chosen(c) == Range(elems[c].tag.chosen_set)
    IN  /\ Len(elems) = 2 ^ n
        /\ {chosen(c) : c \in DOMAIN elems} = SUBSET (0 .. n - 1)
        /\ \A c \in DOMAIN elems :
             /\ elems[c].tag.kind = "top_bottom_k_tag_of_chosen_set"
             /\ elems[c].tag.tags = Tags(batch)
             /\ elems[c].tag.k = provenance.k
             /\ Len(elems[c].tag.chosen_set) = Cardinality(chosen(c))
             /\ elems[c].tuple = Cardinality(chosen(c))
        /\ \A r \in 0 .. n :
             Cardinality({c \in DOMAIN elems : elems[c].tuple = r}) = Binomial(n, r)

\* dynamic_count over a batch of three elements: eight elements, three of them
\* with the value 2
C22_Witness ==
  /\ Called({"dynamic_count"}) /\ Len(batch) = 3
  /\ Len(Aggregated.elems) = 8
  /\ Aggregated.elems[1].tuple = 0 /\ Aggregated.elems[8].tuple = 3
  /\ Cardinality({c \in DOMAIN Aggregated.elems : Aggregated.elems[c].tuple = 2}) = 3

\* the static aggregation of a dynamic one and the dynamic one of a static one
Counterpart(op) ==
  CASE op = "dynamic_count" -> "static_count" [] op = "static_count" -> "dynamic_count"
    [] op = "dynamic_min" -> "static_min" [] op = "static_min" -> "dynamic_min"
    [] op = "dynamic_max" -> "static_max" [] op = "static_max" -> "dynamic_max"
    [] op = "dynamic_exists" -> "static_exists" [] op = "static_exists" -> "dynamic_exists"
\* the provenance of the other type with the same k
OtherProvenance(self) ==
  [self EXCEPT !.name = IF @ = "top-bottom-k-clauses"
                        THEN "diff-top-bottom-k-clauses" ELSE "top-bottom-k-clauses"]

RECURSIVE fill_storage(_, _, _)
fill_storage(storage, i, length) ==
  IF i >= length THEN storage
  ELSE fill_storage([storage EXCEPT ![i + 1] = storage[i - 1] + storage[i]], i + 1, length)

\* fib returning 0 for a negative number
fib_zero_for_negative(t) ==
  IF t = 0 THEN Some(1)
  ELSE IF t = 1 THEN Some(1)
  ELSE IF t > 1
       THEN LET length == t
                storage == fill_storage([i \in 1..length |-> 1], 2, length)
            IN  Some(storage[Len(storage)])
       ELSE Some(0)

\* fn fib
fib(t) ==
  IF t = 0 THEN Some(1)
  ELSE IF t = 1 THEN Some(1)
  ELSE IF t > 1
       THEN LET length == t
                storage == fill_storage([i \in 1..length |-> 1], 2, length)
            IN  Some(storage[Len(storage)])
       ELSE None

\* Fib::execute: an integer argument is handed to fib, the value keeps its type
Fib_execute(args) ==
  IF args[1].ty \in {"i8", "i16", "i32", "i64", "i128", "isize",
                     "u8", "u16", "u32", "u64", "u128", "usize"}
  THEN LET r == fib(args[1].i)
       IN  IF IsSome(r) THEN Some([args[1] EXCEPT !.i = Unwrap(r)]) ELSE None
  ELSE None

\* the rule S(x, $fib(x)) = R(x) under the unit provenance: a tuple of R whose
\* foreign function call returns None yields no tuple of S
run_rule(facts) ==
  Ok({<<x, Unwrap(Fib_execute(<<I32(x)>>)).i>> :
        x \in {y \in facts : IsSome(Fib_execute(<<I32(y)>>))}})

\* the facts the test adds to R, and others
FfNumbers == {-10, -1, 0, 1, 2, 3, 5, 8}

\* IntegrateContext::new, register_foreign_function, add_relation, add_rule
InitFf ==
  /\ ff_facts = {}
  /\ ff_run = None
  /\ IdleBut("ff")

\* ctx.edb().add_facts
AddFacts ==
  /\ ff_run = None
  /\ \E x \in FfNumbers \ ff_facts : ff_facts' = ff_facts \cup {x}
  /\ UNCHANGED ff_run
  /\ UnchangedBut("ff")

\* ctx.run()
Run ==
  /\ ff_run = None
  /\ ff_run' = Some(run_rule(ff_facts))
  /\ UNCHANGED ff_facts
  /\ UnchangedBut("ff")

NextFf == AddFacts \/ Run

SpecFf == InitFf /\ [][NextFf]_vars

\* the Fibonacci numbers F(1) = F(2) = 1, F(n) = F(n - 1) + F(n - 2)
RECURSIVE Fibonacci(_)
Fibonacci(n) == IF n <= 2 THEN 1 ELSE Fibonacci(n - 1) + Fibonacci(n - 2)

\* C19: the run succeeds and S holds exactly (x, f(x)) for the x of R on which
\* the foreign function returns a value (1 for 0, the Fibonacci number for a
\* positive x); a negative x, on which it returns None, contributes no tuple.
\* For R = {-10, 0, 3, 5, 8}, S = {(0,1), (3,2), (5,5), (8,21)}.
C19_ForeignFunctionNone ==
  IsSome(ff_run) =>
    /\ Unwrap(ff_run).ok
    /\ Unwrap(ff_run).val
         = {<<x, IF x = 0 THEN 1 ELSE Fibonacci(x)>> : x \in {y \in ff_facts : y >= 0}}
    /\ ff_facts = {-10, 0, 3, 5, 8}
         => Unwrap(ff_run).val = {<<0, 1>>, <<3, 2>>, <<5, 5>>, <<8, 21>>}

\* the run of the test: R = {-10, 0, 3, 5, 8}
C19_Witness ==
  /\ IsSome(ff_run) /\ ff_facts = {-10, 0, 3, 5, 8}
  /\ Unwrap(ff_run).ok /\ Cardinality(Unwrap(ff_run).val) = 4

(***************************************************************************)
(* ===============  HAND-WRITTEN FIXPOINT AND COUNT LOOPS  =============== *)
(* core/tests/runtime/dataflow/dyn_aggregate.rs                            *)
(* Under the unit provenance every tag is (): a collection of a relation   *)
(* is the set of its tuples.                                               *)
(***************************************************************************)
\* DynamicRelation::new
DynamicRelation_new == [stable |-> {}, recent |-> {}, to_add |-> {}]
\* DynamicRelation::insert_untagged: the tuples are staged
insert_untagged(self, tuples) == [self EXCEPT !.to_add = @ \cup tuples]
\* DynamicRelation::changed, the commit step: recent goes to stable, the staged
\* tuples that are not in stable become recent; true iff recent is not empty
changed(self) ==
  LET stable == self.stable \cup self.recent
      recent == self.to_add \ stable
  IN  [relation |-> [stable |-> stable, recent |-> recent, to_add |-> {}],
       changed |-> recent # {}]
\* the recent output of DynamicDataflow::from(a).intersect(DynamicDataflow::from(b))
intersect_recent(a, b) ==
  (a.recent \cap b.stable) \cup (a.stable \cap b.recent) \cup (a.recent \cap b.recent)
\* DynamicRelation::insert_dataflow_recent: the recent output of the dataflow is staged
insert_dataflow_recent(self, recent_output) == [self EXCEPT !.to_add = @ \cup recent_output]
\* DynamicRelation::complete
complete(self) == self.stable
\* the recent output of the single-group count over
\* DynamicDataflow::dynamic_collection(collection, first_time): the collection is
\* recent the first time and stable afterwards
count_single_recent(collection, is_first_time) ==
  IF is_first_time THEN {<<Cardinality(collection)>>} ELSE {}

\* the tuples of the test's two sources
TestTuples == {<<0, 1>>, <<1, 2>>, <<3, 4>>, <<3, 5>>, <<1, 1>>}

\* lines 10-20: the relations are created and the sources are filled
InitDyn ==
  /\ dyn_pc = "while_fixpoint"
  /\ \E tuples \in SUBSET TestTuples : source_1 = insert_untagged(DynamicRelation_new, tuples)
  /\ \E tuples \in SUBSET TestTuples : source_2 = insert_untagged(DynamicRelation_new, tuples)
  /\ target = DynamicRelation_new
  /\ completed_target = None
  /\ first_time = FALSE
  /\ agg_relation = <<>>
  /\ IdleBut("dyn")

\* the loop condition with && for ||
FixpointCondition_all_changed ==
  /\ dyn_pc = "while_fixpoint"
  /\ LET c1 == changed(source_1)
         c2 == changed(source_2)
         c3 == changed(target)
     IN  /\ source_1' = c1.relation
         /\ source_2' = IF c1.changed THEN c2.relation ELSE source_2
         /\ target' = IF c1.changed /\ c2.changed THEN c3.relation ELSE target
         /\ dyn_pc' = IF c1.changed /\ c2.changed /\ c3.changed THEN "fixpoint_body" ELSE "complete"
  /\ UNCHANGED <<completed_target, first_time, agg_relation>>
  /\ UnchangedBut("dyn")

\* line 23: source_1.changed() || source_2.changed() || target.changed();
\* an operand is evaluated only when the ones before it returned false
FixpointCondition ==
  /\ dyn_pc = "while_fixpoint"
  /\ LET c1 == changed(source_1)
         c2 == changed(source_2)
         c3 == changed(target)
     IN  /\ source_1' = c1.relation
         /\ source_2' = IF c1.changed THEN source_2 ELSE c2.relation
         /\ target' = IF c1.changed \/ c2.changed THEN target ELSE c3.relation
         /\ dyn_pc' = IF c1.changed \/ c2.changed \/ c3.changed THEN "fixpoint_body" ELSE "complete"
  /\ UNCHANGED <<completed_target, first_time, agg_relation>>
  /\ UnchangedBut("dyn")

\* lines 24-28
FixpointBody ==
  /\ dyn_pc = "fixpoint_body"
  /\ target' = insert_dataflow_recent(target, intersect_recent(source_1, source_2))
  /\ dyn_pc' = "while_fixpoint"
  /\ UNCHANGED <<source_1, source_2, completed_target, first_time, agg_relation>>
  /\ UnchangedBut("dyn")

\* lines 31-34
Complete ==
  /\ dyn_pc = "complete"
  /\ completed_target' = Some(complete(target))
  /\ first_time' = TRUE
  /\ agg_relation' = DynamicRelation_new
  /\ dyn_pc' = "while_count"
  /\ UNCHANGED <<source_1, source_2, target>>
  /\ UnchangedBut("dyn")

\* line 35: agg.changed() || first_time
CountCondition ==
  /\ dyn_pc = "while_count"
  /\ LET c == changed(agg_relation)
     IN  /\ agg_relation' = c.relation
         /\ dyn_pc' = IF c.changed \/ first_time THEN "count_body" ELSE "done"
  /\ UNCHANGED <<source_1, source_2, target, completed_target, first_time>>
  /\ UnchangedBut("dyn")

\* lines 36-46
CountBody ==
  /\ dyn_pc = "count_body"
  /\ agg_relation' =
       insert_dataflow_recent(agg_relation, count_single_recent(Unwrap(completed_target), first_time))
  /\ first_time' = FALSE
  /\ dyn_pc' = "while_count"
  /\ UNCHANGED <<source_1, source_2, target, completed_target>>
  /\ UnchangedBut("dyn")

NextDyn == FixpointCondition \/ FixpointBody \/ Complete \/ CountCondition \/ CountBody

\* the test is one thread that runs until it returns
SpecDyn == InitDyn /\ [][NextDyn]_vars /\ WF_vars(NextDyn)

\* the tuples a source was filled with
Inserted(r) == r.stable \cup r.recent \cup r.to_add

\* C20: the fixpoint loop with the short-circuiting || terminates for every pair
\* of inputs, target's completed collection is then the intersection of the two
\* inputs, and the count loop terminates with agg = {(n)}, n the size of that
\* intersection.
C20_FixpointTerminates ==
  /\ <>(dyn_pc = "done")
  /\ [](IsSome(completed_target) =>
          /\ Unwrap(completed_target) = Inserted(source_1) \cap Inserted(source_2)
          /\ target.recent = {} /\ target.to_add = {})
  /\ [](dyn_pc = "done" =>
          /\ complete(agg_relation)
               = {<<Cardinality(Inserted(source_1) \cap Inserted(source_2))>>}
          /\ agg_relation.recent = {} /\ agg_relation.to_add = {})

\* the run of the test: two tuples are in both sources and the count is 2
C20_Witness ==
  /\ dyn_pc = "done"
  /\ source_1.stable = {<<0, 1>>, <<1, 2>>, <<3, 4>>, <<3, 5>>}
  /\ source_2.stable = {<<1, 1>>, <<1, 2>>, <<3, 5>>}
  /\ Unwrap(completed_target) = {<<1, 2>>, <<3, 5>>}
  /\ complete(agg_relation) = {<<2>>}

(***************************************************************************)
(* ====================  DYNAMIC RELATION WITH TAGS  ===================== *)
(* A DynamicRelation keeps stable and recent as sorted, deduplicated       *)
(* collections (here: functions from tuple to tag) and to_add as the       *)
(* staged elements in insertion order. The provenance is one whose tags    *)
(* are the levels 0..2, add is the maximum and level 0 is discardable.     *)
(***************************************************************************)
\* staged elements of the relation between two changed() calls
MaxStaged == 2

RelTuples == {1, 2, 3}
RelTags == 0 .. 2
\* Provenance::add and Provenance::discard
level_add(t1, t2) == IF t1 >= t2 THEN t1 ELSE t2
level_discard(t) == t = 0

EmptyCollection == [t \in {} |-> 0]
\* DynamicRelation::new under this provenance
DynamicRelation_tagged_new ==
  [stable |-> EmptyCollection, recent |-> EmptyCollection, to_add |-> <<>>]
\* DynamicRelation::insert_tagged: the elements are staged
insert_tagged(self, elems) == [self EXCEPT !.to_add = @ \o elems]

\* the staged elements merged into one collection: the tags of a duplicated
\* tuple are combined with add
RECURSIVE merge_to_add(_, _)
merge_to_add(elems, acc) ==
  IF elems = <<>> THEN acc
  ELSE LET e == Head(elems)
           tag == IF e.tuple \in DOMAIN acc THEN level_add(acc[e.tuple], e.tag) ELSE e.tag
       IN  merge_to_add(Tail(elems),
             [t \in DOMAIN acc \cup {e.tuple} |-> IF t = e.tuple THEN tag ELSE acc[t]])

\* the commit step that re-adds the tuples that are already in stable
changed_tagged_without_stable_check(self) ==
  LET stable == [t \in DOMAIN self.stable \cup DOMAIN self.recent |->
                   IF t \in DOMAIN self.recent THEN self.recent[t] ELSE self.stable[t]]
      merged == merge_to_add(self.to_add, EmptyCollection)
      kept == {t \in DOMAIN merged : ~level_discard(merged[t])}
      recent == [t \in kept |-> merged[t]]
  IN  [relation |-> [stable |-> stable, recent |-> recent, to_add |-> <<>>],
       changed |-> DOMAIN recent # {}]

\* DynamicRelation::changed, the commit step
changed_tagged(self) ==
  LET stable == [t \in DOMAIN self.stable \cup DOMAIN self.recent |->
                   IF t \in DOMAIN self.recent THEN self.recent[t] ELSE self.stable[t]]
      merged == merge_to_add(self.to_add, EmptyCollection)
      kept == {t \in DOMAIN merged : ~level_discard(merged[t]) /\ t \notin DOMAIN stable}
      recent == [t \in kept |-> merged[t]]
  IN  [relation |-> [stable |-> stable, recent |-> recent, to_add |-> <<>>],
       changed |-> DOMAIN recent # {}]

InitRel ==
  /\ relation = Some(DynamicRelation_tagged_new)
  /\ relation_op = [call |-> "new", value |-> FALSE]
  /\ IdleBut("rel")

\* relation.insert_tagged(&ctx, vec![(tag, tuple)])
InsertTagged ==
  /\ IsSome(relation)
  /\ Len(Unwrap(relation).to_add) < MaxStaged
  /\ \E tuple \in RelTuples, tag \in RelTags :
       relation' = Some(insert_tagged(Unwrap(relation), <<[tuple |-> tuple, tag |-> tag]>>))
  /\ relation_op' = [call |-> "insert_tagged", value |-> FALSE]
  /\ UnchangedBut("rel")

\* relation.changed(&ctx)
Changed ==
  /\ IsSome(relation)
  /\ LET c == changed_tagged(Unwrap(relation))
     IN  /\ relation' = Some(c.relation)
         /\ relation_op' = [call |-> "changed", value |-> c.changed]
  /\ UnchangedBut("rel")

NextRel == InsertTagged \/ Changed

SpecRel == InitRel /\ [][NextRel]_vars

\* the tags staged for a tuple, and their combination with add
StagedTags(r, t) == {r.to_add[i].tag : i \in {j \in DOMAIN r.to_add : r.to_add[j].tuple = t}}
CombinedTag(r, t) == Max(StagedTags(r, t))

\* C21: no tuple is both in stable and in recent; a changed() call moves recent
\* into stable with its tags, empties to_add, makes recent the staged tuples
\* whose combined tag is not discardable and that are not in the new stable,
\* each with its combined tag, and returns true iff that recent is not empty.
C21_ChangedCommits ==
  /\ [](IsSome(relation) =>
          DOMAIN Unwrap(relation).stable \cap DOMAIN Unwrap(relation).recent = {})
  /\ [][relation_op'.call = "changed" =>
          LET old == Unwrap(relation)
              new == Unwrap(relation')
              news == {t \in RelTuples : /\ StagedTags(old, t) # {}
                                         /\ CombinedTag(old, t) # 0
                                         /\ t \notin DOMAIN old.stable \cup DOMAIN old.recent}
          IN  /\ DOMAIN new.stable = DOMAIN old.stable \cup DOMAIN old.recent
              /\ \A t \in DOMAIN old.stable : new.stable[t] = old.stable[t]
              /\ \A t \in DOMAIN old.recent : new.stable[t] = old.recent[t]
              /\ DOMAIN new.recent = news
              /\ \A t \in news : new.recent[t] = CombinedTag(old, t)
              /\ new.to_add = <<>>
              /\ relation_op'.value = (news # {})]_vars

\* a changed() call that returned true: tuple 1 went from recent to stable and
\* the staged tuple 2 became recent with tag 2
C21_Witness ==
  /\ IsSome(relation) /\ relation_op.call = "changed" /\ relation_op.value
  /\ DOMAIN Unwrap(relation).stable = {1}
  /\ 2 \in DOMAIN Unwrap(relation).recent /\ Unwrap(relation).recent[2] = 2

(***************************************************************************)
(* ================  TAGGING OF INPUT FACTS (TOP-BOTTOM-K)  ============== *)
(* core/src/runtime/provenance/probabilistic/top_bottom_k_clauses.rs       *)
(* probs is the Vec<f64> of the provenance (here a sequence, fact id i at  *)
(* index i + 1, probabilities in tenths); disjunctions maps a disjunction  *)
(* id to the fact ids added to it.                                         *)
(***************************************************************************)
\* tagging_fn calls on one provenance object
MaxCalls == 3

\* InputExclusiveProb { prob, exclusion }
InputExclusiveProb(prob, exclusion) == [prob |-> prob, exclusion |-> exclusion]
InputProbs == {0, 5, 10}
DisjunctionIds == {0, 1}
InputTags ==
  {InputExclusiveProb(p, e) : p \in InputProbs, e \in {None} \cup {Some(d) : d \in DisjunctionIds}}

\* Disjunctions::new and Disjunctions::add_disjunction(disj_id, fact_id)
Disjunctions_new == [d \in {} |-> {}]
add_disjunction(d, disj_id, fact_id) ==
  [i \in DOMAIN d \cup {disj_id} |->
     IF i = disj_id THEN (IF i \in DOMAIN d THEN d[i] ELSE {}) \cup {fact_id} ELSE d[i]]

\* TopBottomKClausesProvenance::new
TopBottomKClausesProvenance_new(k) == [k |-> k, probs |-> <<>>, disjunctions |-> Disjunctions_new]

\* CNFDNFContextTrait::fact_probability: p[*id], a panic on an id out of range
fact_probability(self, id) ==
  IF id < Len(self.probs) THEN Ok(self.probs[id + 1]) ELSE Err(Panic("index out of bounds"))

\* tagging_fn taking the fact id after the push
tagging_fn_id_after_push(self, input_tag) ==
  LET probs == Append(self.probs, input_tag.prob)
      fact_id == Len(probs)
      disjunctions ==
        IF IsSome(input_tag.exclusion)
        THEN add_disjunction(self.disjunctions, Unwrap(input_tag.exclusion), fact_id)
        ELSE self.disjunctions
  IN  [self |-> [self EXCEPT !.probs = probs, !.disjunctions = disjunctions],
       tag |-> dnf_singleton(fact_id)]

\* TopBottomKClausesProvenance::tagging_fn: the provenance after the call and the tag
tagging_fn(self, input_tag) ==
  LET fact_id == Len(self.probs)
      probs == Append(self.probs, input_tag.prob)
      disjunctions ==
        IF IsSome(input_tag.exclusion)
        THEN add_disjunction(self.disjunctions, Unwrap(input_tag.exclusion), fact_id)
        ELSE self.disjunctions
  IN  [self |-> [self EXCEPT !.probs = probs, !.disjunctions = disjunctions],
       tag |-> dnf_singleton(fact_id)]

InitTagging ==
  /\ \E k \in {1, 3} : tbk_ctx = Some(TopBottomKClausesProvenance_new(k))
  /\ tagging_calls = <<>>
  /\ IdleBut("tagging")

\* ctx.tagging_fn(input_tag)
TaggingFn ==
  /\ IsSome(tbk_ctx)
  /\ Len(tagging_calls) < MaxCalls
  /\ \E input_tag \in InputTags :
       LET r == tagging_fn(Unwrap(tbk_ctx), input_tag)
       IN  /\ tbk_ctx' = Some(r.self)
           /\ tagging_calls' = Append(tagging_calls, [input_tag |-> input_tag, tag |-> r.tag])
  /\ UnchangedBut("tagging")

\* ctx.set_k(k)
SetK ==
  /\ IsSome(tbk_ctx)
  /\ \E k \in {1, 3} : k # Unwrap(tbk_ctx).k /\ tbk_ctx' = Some([Unwrap(tbk_ctx) EXCEPT !.k = k])
  /\ UNCHANGED tagging_calls
  /\ UnchangedBut("tagging")

NextTagging == TaggingFn \/ SetK

SpecTagging == InitTagging /\ [][NextTagging]_vars

\* C23: call i (from 0) returned the DNF singleton of fact id i; the probability
\* table has one entry per call; fact_probability(i) is the probability given in
\* call i, in every later state; fact id i is in disjunction d exactly when the
\* input tag of call i carried the exclusion id d.
C23_TaggingTables ==
  IsSome(tbk_ctx) =>
    LET self == Unwrap(tbk_ctx)
        n == Len(tagging_calls)
    IN  /\ Len(self.probs) = n
        /\ \A i \in 0 .. n - 1 :
             /\ tagging_calls[i + 1].tag = dnf_singleton(i)
             /\ fact_probability(self, i) = Ok(tagging_calls[i + 1].input_tag.prob)
        /\ \A d \in DisjunctionIds :
             (IF d \in DOMAIN self.disjunctions THEN self.disjunctions[d] ELSE {})
               = {i \in 0 .. n - 1 : tagging_calls[i + 1].input_tag.exclusion = Some(d)}
        /\ DOMAIN self.disjunctions \subseteq DisjunctionIds

\* three calls: facts 0 and 2 carry the exclusion id 1, fact 1 carries none
C23_Witness ==
  /\ IsSome(tbk_ctx) /\ Len(tagging_calls) = 3
  /\ tagging_calls[3].tag = dnf_singleton(2)
  /\ Unwrap(tbk_ctx).probs = <<5, 10, 0>>
  /\ DOMAIN Unwrap(tbk_ctx).disjunctions = {1}
  /\ Unwrap(tbk_ctx).disjunctions[1] = {0, 2}

(***************************************************************************)
(* ==================  OUTPUT RELATIONS OF A RAM PROGRAM  ================ *)
(* core/src/compiler/ram/ast.rs                                            *)
(* strata is the Vec<Stratum>; relations is the BTreeMap from predicate    *)
(* to Relation of a stratum (a function); a program is built stratum by    *)
(* stratum, each rel under its predicate in one stratum.              *)
(***************************************************************************)
\* strata of one program
MaxStrata == 2

\* OutputOption
OutputDefault == [kind |-> "Default", path |-> ""]
OutputHidden == [kind |-> "Hidden", path |-> ""]
OutputFile(path) == [kind |-> "File", path |-> path]
OutputOptions == {OutputDefault, OutputHidden, OutputFile("out.csv")}

\* struct Relation
RamRelation(predicate, input_file, output, immutable) ==
  [predicate |-> predicate, tuple_type |-> <<"i32">>, input_file |-> input_file,
   facts |-> <<>>, output |-> output, immutable |-> immutable]
\* struct Stratum
Stratum(is_recursive) ==
  [is_recursive |-> is_recursive, relations |-> [p \in {} |-> <<>>], updates |-> <<>>]
\* Program::new
Program_new ==
  [strata |-> <<>>, function_registry |-> "ForeignFunctionRegistry::new()",
   predicate_registry |-> "ForeignPredicateRegistry::new()",
   relation_to_stratum |-> [p \in {} |-> 0]]

Predicates == {"a", "b"}
\* the targets asked for: predicates of the program and one that is not in it
Targets == SUBSET (Predicates \cup {"c"})

\* set_output_relations that leaves a relation piped to a file as it is
set_output_relations_keeps_files(self, targets) ==
  [self EXCEPT !.strata =
     [s \in DOMAIN self.strata |->
        [self.strata[s] EXCEPT !.relations =
           [p \in DOMAIN self.strata[s].relations |->
              LET rel == self.strata[s].relations[p]
              IN  IF rel.output.kind = "File" THEN rel
                  ELSE IF rel.predicate \in targets
                  THEN [rel EXCEPT !.output = OutputDefault]
                  ELSE [rel EXCEPT !.output = OutputHidden]]]]]

\* Program::set_output_relations
set_output_relations(self, targets) ==
  [self EXCEPT !.strata =
     [s \in DOMAIN self.strata |->
        [self.strata[s] EXCEPT !.relations =
           [p \in DOMAIN self.strata[s].relations |->
              LET rel == self.strata[s].relations[p]
              IN  IF rel.predicate \in targets
                  THEN [rel EXCEPT !.output = OutputDefault]
                  ELSE [rel EXCEPT !.output = OutputHidden]]]]]

InitProgram ==
  /\ program = Some(Program_new)
  /\ program_op = [call |-> "new", target |-> {}]
  /\ IdleBut("program")

\* a stratum is pushed to program.strata
PushStratum ==
  /\ IsSome(program)
  /\ program_op.call \in {"new", "build"}
  /\ Len(Unwrap(program).strata) < MaxStrata
  /\ \E is_recursive \in BOOLEAN :
       program' = Some([Unwrap(program) EXCEPT !.strata = Append(@, Stratum(is_recursive))])
  /\ program_op' = [call |-> "build", target |-> {}]
  /\ UnchangedBut("program")

\* a rel is put into the last stratum and into relation_to_stratum
\* (strata are numbered from 0)
PutRelation ==
  /\ IsSome(program)
  /\ program_op.call \in {"new", "build"}
  /\ Unwrap(program).strata # <<>>
  /\ \E predicate \in Predicates \ DOMAIN Unwrap(program).relation_to_stratum,
        input_file \in {None, Some("in.csv")}, output \in OutputOptions, immutable \in BOOLEAN :
       LET self == Unwrap(program)
           s == Len(self.strata)
           rel == RamRelation(predicate, input_file, output, immutable)
       IN  program' = Some(
             [self EXCEPT
                !.strata[s].relations =
                   [p \in DOMAIN @ \cup {predicate} |-> IF p = predicate THEN rel ELSE @[p]],
                !.relation_to_stratum =
                   [p \in DOMAIN @ \cup {predicate} |-> IF p = predicate THEN s - 1 ELSE @[p]]])
  /\ program_op' = [call |-> "build", target |-> {}]
  /\ UnchangedBut("program")

\* program.set_output_relations(targets)
SetOutputRelations ==
  /\ IsSome(program)
  /\ \E targets \in Targets :
       /\ program' = Some(set_output_relations(Unwrap(program), targets))
       /\ program_op' = [call |-> "set_output_relations", target |-> targets]
  /\ UnchangedBut("program")

NextProgram == PushStratum \/ PutRelation \/ SetOutputRelations

SpecProgram == InitProgram /\ [][NextProgram]_vars

\* C24: a set_output_relations(targets) call leaves every rel whose predicate
\* is in targets with output Default and every other rel with output Hidden,
\* whatever its output was; the strata, the relations of each stratum, every
\* other field of a rel, a stratum or the program are as before; the same
\* call on the result changes nothing.
C24_SetOutputRelations ==
  [][program_op'.call = "set_output_relations" =>
       LET old == Unwrap(program)
           new == Unwrap(program')
           targets == program_op'.target
       IN  /\ DOMAIN new.strata = DOMAIN old.strata
           /\ \A s \in DOMAIN old.strata :
                /\ DOMAIN new.strata[s].relations = DOMAIN old.strata[s].relations
                /\ [new.strata[s] EXCEPT !.relations = <<>>] = [old.strata[s] EXCEPT !.relations = <<>>]
                /\ \A p \in DOMAIN old.strata[s].relations :
                     LET r == new.strata[s].relations[p]
                     IN  /\ r.output = IF r.predicate \in targets THEN OutputDefault ELSE OutputHidden
                         /\ [r EXCEPT !.output = <<>>] = [old.strata[s].relations[p] EXCEPT !.output = <<>>]
           /\ [new EXCEPT !.strata = <<>>] = [old EXCEPT !.strata = <<>>]
           /\ set_output_relations(new, targets) = new]_vars

\* a call with targets {a} on a program of two strata whose rel b was piped
\* to a file: a is Default and b is Hidden
C24_Witness ==
  /\ IsSome(program) /\ program_op = [call |-> "set_output_relations", target |-> {"a"}]
  /\ Len(Unwrap(program).strata) = 2
  /\ DOMAIN Unwrap(program).strata[1].relations = {"a"}
  /\ DOMAIN Unwrap(program).strata[2].relations = {"b"}
  /\ Unwrap(program).strata[1].relations["a"].output = OutputDefault
  /\ Unwrap(program).strata[2].relations["b"].output = OutputHidden
  /\ Unwrap(program).strata[2].relations["b"].input_file = Some("in.csv")

(***************************************************************************)
(* ===================  CONSTANT VECTOR AS A DATAFLOW  =================== *)
(* core/src/runtime/dynamic/dataflow/untagged_vec.rs                       *)
(* DynamicBatches is the sequence of the batches it yields.                *)
(***************************************************************************)
\* fixpoint iterations the dataflow is evaluated in
MaxIterations == 3

\* DynamicUntaggedVec::new
DynamicUntaggedVec_new(ctx, tuples) == [ctx |-> ctx, tuples |-> tuples]
\* DynamicBatch::untagged_vec, DynamicBatches::single, DynamicBatches::Empty
DynamicBatch_untagged_vec(ctx, tuples) == [kind |-> "untagged_vec", ctx |-> ctx, tuples |-> tuples]
DynamicBatches_single(b) == <<b>>
DynamicBatches_Empty == <<>>

\* iter_recent
iter_recent(self, env) == DynamicBatches_single(DynamicBatch_untagged_vec(self.ctx, self.tuples))

\* iter_stable giving the tuples as a stable batch
iter_stable_single(self, env) ==
  DynamicBatches_single(DynamicBatch_untagged_vec(self.ctx, self.tuples))

\* iter_stable
iter_stable(self, env) == DynamicBatches_Empty

\* the tuples of the vector and the runtime environments of an iteration
VecTuples == {<<0>>, <<1>>, <<2>>, <<3>>}
RuntimeEnvironments == {"default", "random_seed", "iter_limit"}

InitUvec ==
  /\ \E tuples \in SeqsUpTo(VecTuples, 0, 2) :
       untagged_vec = Some(DynamicUntaggedVec_new("unit", tuples))
  /\ uv_iteration = None
  /\ IdleBut("uvec")

\* one iteration of the fixpoint loop over a dataflow with this leaf: both
\* streams are asked for
Iterate ==
  /\ IsSome(untagged_vec)
  /\ LET n == IF IsSome(uv_iteration) THEN Unwrap(uv_iteration).iteration ELSE 0
     IN  /\ n < MaxIterations
         /\ \E env \in RuntimeEnvironments :
              uv_iteration' =
                Some([iteration |-> n + 1, env |-> env,
                      recent |-> iter_recent(Unwrap(untagged_vec), env),
                      stable |-> iter_stable(Unwrap(untagged_vec), env)])
  /\ UNCHANGED untagged_vec
  /\ UnchangedBut("uvec")

NextUvec == Iterate

SpecUvec == InitUvec /\ [][NextUvec]_vars

\* C30: in every iteration, whatever its number and the runtime environment, the
\* dataflow gives exactly one recent batch, holding all the tuples of the vector
\* in order, and no stable batch.
C30_AlwaysRecent ==
  [](IsSome(uv_iteration) =>
       /\ Len(Unwrap(uv_iteration).recent) = 1
       /\ Unwrap(uv_iteration).recent[1].tuples = Unwrap(untagged_vec).tuples
       /\ Unwrap(uv_iteration).stable = <<>>)

\* the third iteration over a vector of two tuples, under another environment
\* than the default one
C30_Witness ==
  /\ IsSome(uv_iteration) /\ Unwrap(uv_iteration).iteration = 3
  /\ Unwrap(uv_iteration).env = "iter_limit"
  /\ Unwrap(untagged_vec).tuples = << <<2>>, <<0>> >>
  /\ Unwrap(uv_iteration).recent[1].tuples = << <<2>>, <<0>> >>
  /\ Unwrap(uv_iteration).stable = <<>>
====
